---- MODULE Spec2Model ----
(***************************************************************************)
(* Model of the gitmesh Repository Intelligence Engine:                    *)
(*   - RateLimitManager (src/app/lib/enhanced-github-api.ts 515-558)       *)
(*   - EnhancedGitHubAPI search / trending / compatibility                 *)
(*     (src/app/lib/enhanced-github-api.ts 39-510)                         *)
(*   - GitHubSearchEngine (src/unnamed/part_001)                           *)
(*   - AICodeAnalyzer.getCompatibilityScore (src/app/lib/ai-code-analyzer) *)
(*                                                                         *)
(* JavaScript runs one callback at a time: an async function runs without  *)
(* interruption from one await that suspends to the next.  Every action    *)
(* below is one such uninterrupted block.  Time is Date.now() in ms,       *)
(* counted from an arbitrary origin; it only moves in the Tick actions.    *)
(***************************************************************************)
EXTENDS Integers, Sequences, FiniteSets, TLC

VARIABLES
    now,              \* Date.now(), ms
    lastRequestTime,  \* RateLimitManager.lastRequestTime
    requestCount,     \* RateLimitManager.requestCount
    resetTime,        \* RateLimitManager.resetTime (ms)
    remaining,        \* RateLimitManager.remaining
    pc,               \* per request: where its async call chain is suspended
    wakeAt,           \* per request: expiry time of the setTimeout it awaits
    callNow,          \* per request: the local `now` read by waitIfNeeded
    op,               \* per request: the operation it runs
    prevStamp,        \* history: lastRequestTime recorded by the completed
                      \*   call before the latest one (-1: there is none)
    epoch,            \* history: number of updateLimits calls so far
    quotaAtUpdate,    \* history: remaining as set by the last updateLimits
    passedSince,      \* history: calls that passed the low-water check and
                      \*   decremented, all within the current epoch
    chk,              \* history, per request: epoch of its low-water check,
                      \*   whether it suspended for quota
    decBy,            \* history, per request: decrements of remaining it made
    cache,            \* EnhancedGitHubAPI.cache: key -> {data, timestamp}
    req,              \* per request: its arguments (query, filters, page)
    result,           \* per request: the value returned to its caller
    errors,           \* per request: errors thrown to its caller
    resp,             \* history, per request: the external search response
    extLog,           \* history: per cache key, the times at which an
                      \*   external search call was issued for it
    extBy,            \* history, per request: external search calls issued
    searchQuery,      \* history, per request: the query string of the
                      \*   external search call it issued last
    cancelled,        \* per request: its caller gave up while it was
                      \*   suspended in waitIfNeeded
    seq,              \* history, per request: the ordinal of its operation
    lookups,          \* history, per request: its cache lookups, each with
                      \*   the entry's age and whether it was served
    nCalls,           \* number of operations started
    nTicks,           \* number of clock steps taken
    compatOp,         \* the compatibility operation running or last run
    compatPc,         \* where it is
    compatRepos,      \* its argument: the list of repositories
    compatOut,        \* the value it returned
    analysesRun,      \* history: analyses it has started on its argument
    pending,          \* indices of compatRepos whose analyzeRepository call
                      \*   has not returned yet
    analyzerCache,    \* AICodeAnalyzer.cache: the repositories it holds
    nCompat,          \* number of compatibility operations started
    combinations,     \* ProjectCombinator.combinations: id -> result
    inflight,         \* per caller: its combineProjects call, while it runs
    combLog,          \* history: the completed combineProjects calls, each
                      \*   with its request and the result it returned
    nCombine,         \* number of combineProjects calls started
    fn,               \* the pure function last applied
    arg,              \* its arguments, with the clock it read
    out,              \* its value
    built,            \* the query build before the last one, if any
    arrays,           \* the arrays of names allocated so far, by reference
    exclusionList,    \* GitHubSearchEngine.exclusionList: a reference
    nListOps,         \* number of exclusion-list operations made
    analysisCache     \* AICodeAnalyzer.cache, with the analyses it holds

rlVars == <<lastRequestTime, requestCount, resetTime, remaining>>
procVars == <<pc, wakeAt, callNow, op>>
histVars == <<prevStamp, epoch, quotaAtUpdate, passedSince, chk, decBy>>
searchVars == <<cache, req, result, errors, resp, extLog, extBy, searchQuery,
               cancelled,
               seq, lookups>>
mainVars == <<now, rlVars, procVars, histVars, searchVars, nCalls, nTicks>>
compatVars == <<compatOp, compatPc, compatRepos, compatOut, analysesRun,
               pending, analyzerCache, nCompat>>
combineVars == <<combinations, inflight, combLog, nCombine>>
callVars == <<fn, arg, out, built>>
listVars == <<arrays, exclusionList, nListOps>>
vars == <<mainVars, compatVars, combineVars, callVars, listVars,
          analysisCache>>

----------------------------------------------------------------------------
(* Bounds of the model *)

MaxCalls == 3
MaxSearches == 2
MaxTicks == 2
MaxUpdates == 1
StartTime == 1000
MaxRepos == 3
MaxCompat == 2
MaxCombine == 3
MaxFrameworks == 4

Procs == {1, 2}

(* Program constants *)

minInterval == 100
LowWater == 100
MaxQuota == 5000

Max(a, b) == IF a >= b THEN a ELSE b
Min(a, b) == IF a <= b THEN a ELSE b

----------------------------------------------------------------------------
(* RateLimitManager.waitIfNeeded, as a function of the state it reads.     *)
(* rl is the limiter's fields; the result adds `stage`: where the call is  *)
(* after the block ("quotaWait", "intervalWait" or "resolved") and `wake`. *)

RL == [lastRequestTime |-> lastRequestTime, requestCount |-> requestCount,
       resetTime |-> resetTime, remaining |-> remaining]

\* lines 549-551
RecordRequest(rl, clock) ==
    [rl EXCEPT !.lastRequestTime = clock,
               !.requestCount = @ + 1,
               !.remaining = @ - 1] @@ [stage |-> "resolved", wake |-> 0]

\* lines 540-551; n is the call's local `now`, clock is Date.now()
EnforceInterval(rl, n, clock) ==
    LET timeSinceLastRequest == n - rl.lastRequestTime
    IN  IF timeSinceLastRequest < minInterval
        THEN rl @@ [stage |-> "intervalWait",
                    wake |-> clock + (minInterval - timeSinceLastRequest)]
        ELSE RecordRequest(rl, clock)

\* lines 522-537, then on into 540-551 when no quota wait is needed
EnterWaitIfNeeded(rl, clock) ==
    LET n == clock
        rl1 == IF n > rl.resetTime
               THEN [rl EXCEPT !.requestCount = 0, !.remaining = MaxQuota]
               ELSE rl
        waitTime == Max(0, rl1.resetTime - n)
    IN  IF rl1.remaining <= LowWater /\ waitTime > 0
        THEN rl1 @@ [stage |-> "quotaWait", wake |-> clock + waitTime]
        ELSE EnforceInterval(rl1, n, clock)

----------------------------------------------------------------------------
(* Repository records and the quality scores.                              *)
(* Scores are real numbers in the source; here they are counted in         *)
(* thousandths of a point (floor), and rounded as Math.round does at the   *)
(* end.  Log10Milli(n) is floor(1000 * log10(n)) to within 2 thousandths.  *)

Scale == 1000000
MsPerDay == 86400000

\* floor(a * b / Scale) for 0 <= a, b < 10^7, within 32 bits
MulScale(a, b) ==
    LET a1 == a \div 1000
        a0 == a % 1000
        b1 == b \div 1000
        b0 == b % 1000
    IN  a1 * b1 + ((a1 * b0 + a0 * b1 + (a0 * b0) \div 1000) \div 1000)

RECURSIVE Digits(_)
Digits(n) == IF n < 10 THEN 0 ELSE 1 + Digits(n \div 10)

RECURSIVE Pow(_, _)
Pow(b, k) == IF k = 0 THEN 1 ELSE b * Pow(b, k - 1)

\* the first `bits` binary digits of log10(m / Scale), Scale <= m < 10 * Scale
RECURSIVE FracBits(_, _)
FracBits(m, bits) ==
    IF bits = 0 THEN 0
    ELSE LET sq == MulScale(m, m)
         IN  IF sq >= 10 * Scale
             THEN Pow(2, bits - 1) + FracBits(sq \div 10, bits - 1)
             ELSE FracBits(sq, bits - 1)

\* Math.log10(n) * 1000 for 1 <= n < 10^7
Log10Milli(n) ==
    LET c == Digits(n)
        m == n * (Scale \div Pow(10, c))
    IN  c * 1000 + (FracBits(m, 10) * 1000) \div 1024

\* Math.round of a value given in thousandths
Round(milli) == (milli + 500) \div 1000

\* (Date.now() - new Date(repo.updated_at).getTime()) / (1000*60*60*24), in
\* thousandths of a day; updated_at is kept in whole days from the clock's
\* origin (negative: before it)
DaysSinceUpdateMilli(repo, clock) ==
    (clock \div (MsPerDay \div 1000)) - repo.updated_at * 1000

\* EnhancedGitHubAPI.calculateEnhancedQualityScore; languages and
\* contributors are given by their sizes
calculateEnhancedQualityScore(repo, nLanguages, nContributors, clock) ==
    LET stars == Min(Log10Milli(repo.stargazers_count + 1) * 5, 25000)
        activity == Max(20000 - DaysSinceUpdateMilli(repo, clock) \div 7, 0)
        docs == (IF repo.descLen > 20 THEN 10000 ELSE 0)
                + (IF repo.nTopics > 0 THEN 5000 ELSE 0)
        community == Min(nContributors * 2000, 15000)
                     + Min(repo.forks_count * 100, 5000)
        diversity == Min(nLanguages * 2000, 10000)
        issueRatio50 == (repo.open_issues_count * 50000)
                            \div (repo.stargazers_count + 1)
        issues == Max(10000 - issueRatio50, 0)
        score == stars + activity + docs + community + diversity + issues
    IN  Round(Min(score, 100000))

\* the five sub-scores of GitHubSearchEngine.calculateQualityScore before
\* their weights (part_001 lines 185-205), in thousandths
standardSubScores(repo, clock) ==
    [stars |-> Min(Log10Milli(repo.stargazers_count + 1) * 10, 30000),
     forks |-> Min(Log10Milli(repo.forks_count + 1) * 10, 20000),
     updates |-> Max(20000 - DaysSinceUpdateMilli(repo, clock) \div 30, 0),
     documentation |-> (IF repo.descLen > 50 THEN 15000 ELSE 0)
                       + (IF repo.nTopics > 0 THEN 5000 ELSE 0),
     issues |-> Max(10000 - (repo.open_issues_count * 50000)
                                \div (repo.stargazers_count + 1), 0)]

\* (a faulty variant of calculateQualityScore, for sensitivity: the issue
\* score has no floor and the sum no cap)
calculateQualityScoreUnbounded(repo, clock) ==
    LET sub == standardSubScores(repo, clock)
        issueScore == 10000 - (repo.open_issues_count * 50000)
                                 \div (repo.stargazers_count + 1)
        score == (sub.stars * 3) \div 10 + (sub.forks * 2) \div 10
                 + (sub.updates * 2) \div 10 + (sub.documentation * 2) \div 10
                 + issueScore \div 10
    IN  Round(score)

\* (a faulty variant of calculateQualityScore, for sensitivity: a description
\* counts from 20 characters on, as in the enhanced score)
calculateQualityScoreReadme20(repo, clock) ==
    LET sub == standardSubScores(repo, clock)
        docScore == (IF repo.descLen > 20 THEN 15000 ELSE 0)
                    + (IF repo.nTopics > 0 THEN 5000 ELSE 0)
        score == (sub.stars * 3) \div 10 + (sub.forks * 2) \div 10
                 + (sub.updates * 2) \div 10 + (docScore * 2) \div 10
                 + sub.issues \div 10
    IN  Round(Min(score, 100000))

\* GitHubSearchEngine.calculateQualityScore, with qualityWeights
\* stars 0.3, forks 0.2, issues 0.1, updates 0.2, documentation 0.2
calculateQualityScore(repo, clock) ==
    LET starScore == Min(Log10Milli(repo.stargazers_count + 1) * 10, 30000)
        forkScore == Min(Log10Milli(repo.forks_count + 1) * 10, 20000)
        activityScore ==
            Max(20000 - DaysSinceUpdateMilli(repo, clock) \div 30, 0)
        docScore == (IF repo.descLen > 50 THEN 15000 ELSE 0)
                    + (IF repo.nTopics > 0 THEN 5000 ELSE 0)
        issueRatio50 == (repo.open_issues_count * 50000)
                            \div (repo.stargazers_count + 1)
        issueScore == Max(10000 - issueRatio50, 0)
        score == (starScore * 3) \div 10 + (forkScore * 2) \div 10
                 + (activityScore * 2) \div 10 + (docScore * 2) \div 10
                 + issueScore \div 10
    IN  Round(Min(score, 100000))

\* Raw repository records of the external search API, by kind
RawRepo(kind) ==
    IF kind = "star"
    THEN [kind |-> kind, stargazers_count |-> 99999, forks_count |-> 2000,
          open_issues_count |-> 0, updated_at |-> 0, descLen |-> 200,
          nTopics |-> 5]
    ELSE [kind |-> kind, stargazers_count |-> 50, forks_count |-> 3,
          open_issues_count |-> 2, updated_at |-> 0 - 30, descLen |-> 30,
          nTopics |-> 0]

\* A list of repository records is kept as its runs: a sequence of
\* [repo, count], standing for count consecutive records like repo (they
\* differ in id and name only).  Length(l) is the list's length.
RECURSIVE Length(_)
Length(l) == IF l = <<>> THEN 0 ELSE Head(l).count + Length(Tail(l))

\* the list l without its empty runs
Runs(l) ==
    LET NonEmpty(run) == run.count > 0
    IN  SelectSeq(l, NonEmpty)

\* l.slice(0, k)
RECURSIVE Slice(_, _)
Slice(l, k) ==
    IF l = <<>> \/ k <= 0 THEN <<>>
    ELSE <<[Head(l) EXCEPT !.count = Min(@, k)]>>
             \o Slice(Tail(l), k - Head(l).count)

\* a response page of n items: the kinds of `pattern` in turn, sharing n
Page(n, pattern) ==
    Runs([i \in 1..Len(pattern) |->
            [repo |-> RawRepo(pattern[i]),
             count |-> (n \div Len(pattern))
                       + (IF i = 1 THEN n % Len(pattern) ELSE 0)]])

----------------------------------------------------------------------------
(* Search requests, the cache and the external search API *)

cacheTimeout == 1000 * 60 * 15
Undefined == "undefined"
NoPage == 0

\* a filter record is the sequence of its <<field, value>> pairs in the
\* order the fields were set, which is the order JSON.stringify writes them;
\* a string-valued field may be set to undefined
StringFields == {"language", "codeQuality", "sortBy", "order", "archived",
                 "fork", "size", "activity"}

Defined(kv) == ~ (kv[1] \in StringFields /\ kv[2] = Undefined)

\* filters.<field> is set to a value
Has(filters, field) ==
    \E i \in 1..Len(filters) : filters[i][1] = field /\ Defined(filters[i])

\* filters.<field>, when it is set
Filter(filters, field) ==
    filters[CHOOSE i \in 1..Len(filters) :
                filters[i][1] = field /\ Defined(filters[i])][2]

\* JSON.stringify(filters): fields in stored order, undefined ones left out
JSONstringify(filters) == SelectSeq(filters, Defined)

\* line 70
SearchCacheKey(r) == <<"search", r.query, JSONstringify(r.filters), r.page>>

\* line 124, for the default timeframe and no language
TrendingCacheKey == <<"trending", "weekly", "all">>

\* lines 133-145: the search that getTrendingWithAnalysis runs
TrendingRequest ==
    [query |-> "created:>DATE stars:>5",
     filters |-> << <<"sortBy", "stars">>, <<"order", "desc">>,
                    <<"archived", "false">>, <<"fork", "false">> >>,
     page |-> 1]

\* (a faulty variant of Fresh, for sensitivity: an entry exactly as old as the TTL is still served)
FreshInclusive(key, clock) ==
    /\ key \in DOMAIN cache
    /\ clock - cache[key].timestamp <= cacheTimeout

\* lines 72-77 and 126-131: the entry of key, when it may be served
Fresh(key, clock) ==
    /\ key \in DOMAIN cache
    /\ clock - cache[key].timestamp < cacheTimeout

\* cache.set(key, {data, timestamp: Date.now()})
CacheSet(c, key, data, clock) ==
    (key :> [data |-> data, timestamp |-> clock]) @@ c

per_page_enhanced == 50
per_page_basic == 30

\* which of the two enrichment lookups of the items of run i fail in
\* scenario scn
Fails(scn, i) ==
    [languages |-> \/ scn \in {"languagesFail", "bothFail"}
                   \/ scn \in {"oddFail", "mixed"} /\ i % 2 = 1,
     contributors |-> \/ scn \in {"contributorsFail", "bothFail"}
                      \/ scn = "oddFail" /\ i % 2 = 1
                      \/ scn = "mixed" /\ i % 2 = 0]

\* what the two enrichment lookups of the items of run i give in scenario
\* scn: the number of languages and of contributors, 0 for a failed lookup
\* (lines 307-308, 397-420)
Lookups(scn, i) ==
    [languages |-> IF Fails(scn, i).languages THEN 0 ELSE 5,
     contributors |-> IF Fails(scn, i).contributors THEN 0 ELSE 10]

\* the object literal of the enrichment: the fields of repo copied as they
\* are, and the given fields set to the values computed
Spread(repo, fields) ==
    fields @@ [f \in (DOMAIN repo) \ (DOMAIN fields) |-> repo[f]]

\* EnhancedGitHubAPI.enhancedEnrichment (lines 302-344)
enhancedEnrichment(items, scn, clock) ==
    [i \in 1..Len(items) |->
        LET l == Lookups(scn, i)
            repo == items[i].repo
        IN  [items[i] EXCEPT !.repo = Spread(repo,
                [qualityScore |-> calculateEnhancedQualityScore(
                                      repo, l.languages, l.contributors, clock),
                 nLanguages |-> l.languages,
                 contributorCount |-> l.contributors])]]

\* GitHubSearchEngine.enrichRepositories (part_001 lines 150-176)
enrichRepositories(items, clock) ==
    [i \in 1..Len(items) |->
        [items[i] EXCEPT !.repo = Spread(items[i].repo,
            [qualityScore |-> calculateQualityScore(items[i].repo, clock)])]]

\* lines 381-386
qualityThresholds(bucket) ==
    CASE bucket = "excellent" -> 85
      [] bucket = "good" -> 70
      [] bucket = "fair" -> 55
      [] OTHER -> 0

\* (a faulty variant of applyAdvancedFilters, for sensitivity: the star bound of the query is applied
\* to the results as well)
applyAdvancedFiltersStars(repos, filters) ==
    LET Keep(run) ==
            /\ ~ (/\ Has(filters, "codeQuality")
                  /\ run.repo.qualityScore
                         < qualityThresholds(Filter(filters, "codeQuality")))
            /\ ~ (/\ Has(filters, "minStars")
                  /\ run.repo.stargazers_count < Filter(filters, "minStars"))
    IN  SelectSeq(repos, Keep)

\* EnhancedGitHubAPI.applyAdvancedFilters (lines 377-394)
applyAdvancedFilters(repos, filters) ==
    LET Keep(run) ==
            ~ (/\ Has(filters, "codeQuality")
               /\ run.repo.qualityScore
                      < qualityThresholds(Filter(filters, "codeQuality")))
    IN  SelectSeq(repos, Keep)

\* lines 98-103
EnhancedResult(filteredRepos, total_count, page) ==
    [repositories |-> filteredRepos,
     totalCount |-> total_count,
     hasMore |-> Length(filteredRepos) = per_page_enhanced,
     nextPage |-> IF Length(filteredRepos) = per_page_enhanced THEN page + 1
                  ELSE NoPage]

\* part_001 lines 82-87
BasicResult(repositories, items, total_count, page) ==
    [repositories |-> repositories,
     totalCount |-> total_count,
     hasMore |-> Length(items) = per_page_basic,
     nextPage |-> IF Length(items) = per_page_basic THEN page + 1 ELSE NoPage]

\* lines 149-152, analyzeTrends being the fixed record of lines 433-441
TrendingAnalysis(searchResult) ==
    [repositories |-> Slice(searchResult.repositories, 30),
     insights |-> "none"]

-----------------------------------------------------------------------------
(* The query builders.  A string is the sequence of its pieces.            *)

Pad2(n) == IF n < 10 THEN <<"0", ToString(n)>> ELSE <<ToString(n)>>

\* new Date(ms).toISOString().split('T')[0] for the day number ms / MsPerDay:
\* the UTC calendar date, YYYY-MM-DD
ISODate(day) ==
    LET z == day + 719468
        era == z \div 146097
        doe == z - era * 146097
        yoe == (doe - doe \div 1460 + doe \div 36524 - doe \div 146096) \div 365
        doy == doe - (365 * yoe + yoe \div 4 - yoe \div 100)
        mp == (5 * doy + 2) \div 153
        d == doy - (153 * mp + 2) \div 5 + 1
        m == IF mp < 10 THEN mp + 3 ELSE mp - 9
        y == yoe + era * 400 + (IF m <= 2 THEN 1 ELSE 0)
    IN  <<ToString(y), "-">> \o Pad2(m) \o <<"-">> \o Pad2(d)

\* parts.join(' ')
RECURSIVE JoinParts(_)
JoinParts(parts) ==
    IF parts = <<>> THEN <<>>
    ELSE IF Len(parts) = 1 THEN parts[1]
    ELSE parts[1] \o <<" ">> \o JoinParts(Tail(parts))

\* one part per element of a list: list.forEach(x => parts.push(prefix + x))
PushEach(prefix, list) == [i \in 1..Len(list) |-> <<prefix, list[i]>>]

sizeRanges ==
    [small |-> <<"size:<1000">>, medium |-> <<"size:1000..10000">>,
     large |-> <<"size:>10000">>]

ActiveDays == 30
MaintainedDays == 90
StaleDays == 365

\* the thresholds of buildEnhancedQuery at time `clock`: a whole number of
\* days is subtracted, so the date is that of the clock's day less the days
thresholds(clock) ==
    LET today == clock \div MsPerDay
    IN  [active |-> ISODate(today - ActiveDays),
         maintained |-> ISODate(today - MaintainedDays),
         stale |-> <<"<">> \o ISODate(today - StaleDays)]

\* (a faulty variant of buildEnhancedQuery, for sensitivity: the threshold
\* keeps the time of day, the ISO string is not cut at 'T')
buildEnhancedQueryTimestamp(query, filters, clock) ==
    LET time == <<"T", ToString(clock % MsPerDay)>>
        license == IF Has(filters, "license")
                   THEN PushEach("license:", Filter(filters, "license"))
                   ELSE <<>>
        size == IF Has(filters, "size")
                THEN <<sizeRanges[Filter(filters, "size")]>> ELSE <<>>
        activity ==
            IF ~Has(filters, "activity") THEN <<>>
            ELSE IF Filter(filters, "activity") # "stale"
                 THEN <<<<"pushed:>">>
                        \o thresholds(clock)[Filter(filters, "activity")]
                        \o time>>
                 ELSE <<<<"pushed:">> \o thresholds(clock).stale \o time>>
        noise == <<<<"-user:Gzeu">>, <<"-user:octocat">>, <<"NOT tutorial">>,
                   <<"NOT example">>>>
    IN  JoinParts(<<query>> \o license \o size \o activity \o noise)

\* EnhancedGitHubAPI.buildEnhancedQuery, with the clock it reads
buildEnhancedQuery(query, filters, clock) ==
    LET license == IF Has(filters, "license")
                   THEN PushEach("license:", Filter(filters, "license"))
                   ELSE <<>>
        size == IF Has(filters, "size")
                THEN <<sizeRanges[Filter(filters, "size")]>> ELSE <<>>
        activity ==
            IF ~Has(filters, "activity") THEN <<>>
            ELSE IF Filter(filters, "activity") # "stale"
                 THEN <<<<"pushed:>">>
                        \o thresholds(clock)[Filter(filters, "activity")]>>
                 ELSE <<<<"pushed:">> \o thresholds(clock).stale>>
        noise == <<<<"-user:Gzeu">>, <<"-user:octocat">>, <<"NOT tutorial">>,
                   <<"NOT example">>>>
    IN  JoinParts(<<query>> \o license \o size \o activity \o noise)

\* a boolean filter is "true" or "false"
Flag(filters, field, yes, no) ==
    IF ~Has(filters, field) THEN <<>>
    ELSE IF Filter(filters, field) = "true" THEN <<<<yes>>>> ELSE <<<<no>>>>

\* Boolean(part): the empty string is the only falsy part
Truthy(part) == part # <<"">>

\* GitHubSearchEngine.buildSmartQuery, with the exclusion list it reads
buildSmartQuery(query, filters, excluded) ==
    LET parts ==
            <<query>>
            \o PushEach("-user:", excluded)
            \o (IF Has(filters, "language")
                   /\ Filter(filters, "language") # ""
                THEN <<<<"language:", Filter(filters, "language")>>>> ELSE <<>>)
            \o (IF Has(filters, "minStars")
                THEN <<<<"stars:>=", ToString(Filter(filters, "minStars"))>>>>
                ELSE <<>>)
            \o (IF Has(filters, "maxStars")
                THEN <<<<"stars:<=", ToString(Filter(filters, "maxStars"))>>>>
                ELSE <<>>)
            \o (IF Has(filters, "topics")
                THEN PushEach("topic:", Filter(filters, "topics")) ELSE <<>>)
            \o Flag(filters, "hasIssues", "has:issues", "-has:issues")
            \o Flag(filters, "hasWiki", "has:wiki", "-has:wiki")
            \o Flag(filters, "hasPages", "has:pages", "-has:pages")
            \o Flag(filters, "archived", "archived:true", "archived:false")
            \o Flag(filters, "fork", "fork:true", "fork:false")
    IN  JoinParts(SelectSeq(parts, Truthy))

-----------------------------------------------------------------------------
(* Requests in progress *)

NoResult == "none"
NoRequest == [query |-> "", filters |-> <<>>, page |-> 0]
NoResponse == [items |-> <<>>, enriched |-> <<>>, scn |-> "none"]

NoCall == [stage |-> "none"]
NoBuild == [fn |-> "none"]
NoQuery == <<>>

\* part_001 line 46
InitialExclusionList == <<"Gzeu">>

NoCheck == [epoch |-> 0, quota |-> FALSE, future |-> FALSE]

\* What request p's waitIfNeeded leaves behind after one block that ended in
\* outcome o.  isEntry: the block is the call itself (lines 522-537), which
\* reads the local `now` and makes the low-water check.
WaitBlock(p, o, isEntry) ==
    LET c == IF isEntry
             THEN [epoch |-> epoch, quota |-> o.stage = "quotaWait",
                   future |-> now < resetTime]
             ELSE chk[p]
        passedCheck == c.epoch = epoch /\ ~c.quota /\ c.future
    IN  /\ lastRequestTime' = o.lastRequestTime
        /\ requestCount' = o.requestCount
        /\ resetTime' = o.resetTime
        /\ remaining' = o.remaining
        /\ wakeAt' = [wakeAt EXCEPT ![p] = o.wake]
        /\ callNow' = [callNow EXCEPT ![p] =
                           IF o.stage = "resolved" THEN 0
                           ELSE IF isEntry THEN now ELSE @]
        /\ chk' = [chk EXCEPT ![p] = IF o.stage = "resolved" THEN NoCheck ELSE c]
        /\ IF o.stage = "resolved"
           THEN /\ prevStamp' = lastRequestTime
                /\ decBy' = [decBy EXCEPT ![p] = @ + 1]
                /\ passedSince' = IF passedCheck THEN passedSince + 1
                                  ELSE passedSince
           ELSE /\ prevStamp' = prevStamp
                /\ decBy' = IF isEntry THEN [decBy EXCEPT ![p] = 0] ELSE decBy
                /\ passedSince' = passedSince

Free(p) == pc[p] \in {"idle", "done", "failed"}

\* Requests are told apart by p alone: the lower-numbered ones start first.
StartOp(p, name, r) ==
    /\ Free(p)
    /\ \A q \in Procs : q < p => pc[q] # "idle"
    /\ nCalls < (IF name = "security" THEN MaxCalls ELSE MaxSearches)
    /\ nCalls' = nCalls + 1
    /\ op' = [op EXCEPT ![p] = name]
    /\ req' = [req EXCEPT ![p] = r]
    /\ errors' = [errors EXCEPT ![p] = 0]
    /\ resp' = [resp EXCEPT ![p] = NoResponse]
    /\ cancelled' = [cancelled EXCEPT ![p] = FALSE]
    /\ seq' = [seq EXCEPT ![p] = nCalls + 1]

\* the record of one cache lookup (lines 72-77, 126-131)
Lookup(key, served) ==
    [key |-> key,
     present |-> key \in DOMAIN cache,
     age |-> IF key \in DOMAIN cache THEN now - cache[key].timestamp ELSE 0,
     served |-> served]

\* request p, running operation name with arguments r, leaves a block of
\* waitIfNeeded with outcome o.  When the promise resolved,
\* analyzeRepositorySecurity goes on to return (lines 168-183) and
\* enhancedSearch goes on to issue its search call (lines 81-90); sent is the
\* number of search calls p had issued before.
AfterWait(p, name, r, o, sent) ==
    IF o.stage # "resolved"
    THEN /\ pc' = [pc EXCEPT ![p] = o.stage]
         /\ extBy' = [extBy EXCEPT ![p] = sent]
         /\ searchQuery' = [searchQuery EXCEPT ![p] = NoQuery]
         /\ extLog' = extLog
    ELSE IF name = "security"
    THEN /\ pc' = [pc EXCEPT ![p] = "done"]
         /\ extBy' = [extBy EXCEPT ![p] = sent]
         /\ searchQuery' = [searchQuery EXCEPT ![p] = NoQuery]
         /\ extLog' = extLog
    ELSE LET key == SearchCacheKey(r)
             before == IF key \in DOMAIN extLog THEN extLog[key] ELSE <<>>
         IN  /\ pc' = [pc EXCEPT ![p] = "searching"]
             /\ extBy' = [extBy EXCEPT ![p] = sent + 1]
             /\ searchQuery' = [searchQuery EXCEPT ![p] =
                    buildEnhancedQuery(<<r.query>>, r.filters, now)]
             /\ extLog' = (key :> Append(before, now)) @@ extLog

\* analyzeRepositorySecurity: waitIfNeeded, then work that touches no shared
\* state and always returns (lines 165-188)
AnalyzeRepositorySecurity(p) ==
    /\ StartOp(p, "security", NoRequest)
    /\ LET o == EnterWaitIfNeeded(RL, now)
       IN  WaitBlock(p, o, TRUE) /\ AfterWait(p, "security", NoRequest, o, 0)
    /\ result' = [result EXCEPT ![p] = NoResult]
    /\ lookups' = [lookups EXCEPT ![p] = <<>>]
    /\ UNCHANGED <<now, epoch, quotaAtUpdate, nTicks, cache>>
    /\ UNCHANGED <<compatVars, combineVars, callVars, listVars, analysisCache>>

\* (a faulty variant of EnterEnhancedSearch, for sensitivity: the rate limiter is asked before the cache)
EnterEnhancedSearchWaitFirst(p, name, r, onHit, looked) ==
    LET o == EnterWaitIfNeeded(RL, now)
        hit == Fresh(SearchCacheKey(r), now)
    IN  /\ lookups' = [lookups EXCEPT ![p] =
               Append(looked, Lookup(SearchCacheKey(r), hit))]
        /\ result' = [result EXCEPT ![p] =
               IF hit THEN cache[SearchCacheKey(r)].data ELSE NoResult]
        /\ WaitBlock(p, o, TRUE)
        /\ IF hit /\ o.stage = "resolved"
           THEN /\ pc' = [pc EXCEPT ![p] = onHit]
                /\ extBy' = [extBy EXCEPT ![p] = 0]
                /\ searchQuery' = [searchQuery EXCEPT ![p] = NoQuery]
                /\ extLog' = extLog
           ELSE AfterWait(p, name, r, o, 0)
        /\ UNCHANGED <<epoch, quotaAtUpdate>>

\* enhancedSearch up to its first suspension (lines 70-79): the cached value
\* on a hit, else waitIfNeeded
EnterEnhancedSearch(p, name, r, onHit, looked) ==
    IF Fresh(SearchCacheKey(r), now)
    THEN /\ result' = [result EXCEPT ![p] = cache[SearchCacheKey(r)].data]
         /\ lookups' = [lookups EXCEPT ![p] =
                Append(looked, Lookup(SearchCacheKey(r), TRUE))]
         /\ pc' = [pc EXCEPT ![p] = onHit]
         /\ extBy' = [extBy EXCEPT ![p] = 0]
         /\ searchQuery' = [searchQuery EXCEPT ![p] = NoQuery]
         /\ UNCHANGED <<rlVars, wakeAt, callNow, histVars, extLog>>
    ELSE /\ result' = [result EXCEPT ![p] = NoResult]
         /\ lookups' = [lookups EXCEPT ![p] =
                Append(looked, Lookup(SearchCacheKey(r), FALSE))]
         /\ LET o == EnterWaitIfNeeded(RL, now)
            IN  WaitBlock(p, o, TRUE) /\ AfterWait(p, name, r, o, 0)
         /\ UNCHANGED <<epoch, quotaAtUpdate>>

\* EnhancedGitHubAPI.enhancedSearch is called (lines 65-79)
EnhancedSearch(p, r) ==
    /\ StartOp(p, "search", r)
    /\ EnterEnhancedSearch(p, "search", r, "done", <<>>)
    /\ UNCHANGED <<now, nTicks, cache>>
    /\ UNCHANGED <<compatVars, combineVars, callVars, listVars, analysisCache>>

\* EnhancedGitHubAPI.getTrendingWithAnalysis is called (lines 120-145)
GetTrendingWithAnalysis(p) ==
    /\ StartOp(p, "trending", TrendingRequest)
    /\ IF Fresh(TrendingCacheKey, now)
       THEN /\ result' = [result EXCEPT ![p] = cache[TrendingCacheKey].data]
            /\ pc' = [pc EXCEPT ![p] = "done"]
            /\ extBy' = [extBy EXCEPT ![p] = 0]
            /\ searchQuery' = [searchQuery EXCEPT ![p] = NoQuery]
            /\ lookups' = [lookups EXCEPT ![p] =
                   <<Lookup(TrendingCacheKey, TRUE)>>]
            /\ UNCHANGED <<rlVars, wakeAt, callNow, histVars, extLog>>
       ELSE EnterEnhancedSearch(p, "trending", TrendingRequest, "trendCont",
                                <<Lookup(TrendingCacheKey, FALSE)>>)
    /\ UNCHANGED <<now, nTicks, cache>>
    /\ UNCHANGED <<compatVars, combineVars, callVars, listVars, analysisCache>>

\* (a faulty variant of QuotaTimer, for sensitivity: after the quota wait
\* the request is recorded at once, without the spacing of lines 540-547)
QuotaTimerSkipsInterval(p) ==
    /\ pc[p] = "quotaWait"
    /\ now >= wakeAt[p]
    /\ LET o == RecordRequest(RL, now)
       IN  WaitBlock(p, o, FALSE) /\ AfterWait(p, op[p], req[p], o, extBy[p])
    /\ UNCHANGED <<now, op, epoch, quotaAtUpdate, nCalls, nTicks, cache, req,
                   result, errors, resp, cancelled, seq, lookups>>
    /\ UNCHANGED <<compatVars, combineVars, callVars, listVars, analysisCache>>

\* the quota timer of line 535 fires: lines 540-551 run
QuotaTimer(p) ==
    /\ pc[p] = "quotaWait"
    /\ now >= wakeAt[p]
    /\ LET o == EnforceInterval(RL, callNow[p], now)
       IN  WaitBlock(p, o, FALSE) /\ AfterWait(p, op[p], req[p], o, extBy[p])
    /\ UNCHANGED <<now, op, epoch, quotaAtUpdate, nCalls, nTicks, cache, req,
                   result, errors, resp, cancelled, seq, lookups>>
    /\ UNCHANGED <<compatVars, combineVars, callVars, listVars, analysisCache>>

\* the interval timer of lines 544-546 fires: lines 549-551 run
IntervalTimer(p) ==
    /\ pc[p] = "intervalWait"
    /\ now >= wakeAt[p]
    /\ LET o == RecordRequest(RL, now)
       IN  WaitBlock(p, o, FALSE) /\ AfterWait(p, op[p], req[p], o, extBy[p])
    /\ UNCHANGED <<now, op, epoch, quotaAtUpdate, nCalls, nTicks, cache, req,
                   result, errors, resp, cancelled, seq, lookups>>
    /\ UNCHANGED <<compatVars, combineVars, callVars, listVars, analysisCache>>

\* (a faulty variant of SearchSucceeds, for sensitivity: a failed lookup is
\* not caught and rejects the enrichment, so the catch of lines 111-114
\* rethrows)
SearchSucceedsUncaught(p, n, pattern, scn) ==
    /\ pc[p] = "searching"
    /\ op[p] \in {"search", "trending"}
    /\ LET items == Page(n, pattern)
           enrichedRepos == enhancedEnrichment(items, scn, now)
           filteredRepos == applyAdvancedFilters(enrichedRepos, req[p].filters)
           res == EnhancedResult(filteredRepos, n, req[p].page)
           rejected == \E i \in 1..Len(items) :
                           Fails(scn, i).languages \/ Fails(scn, i).contributors
       IN  IF rejected
           THEN /\ resp' = [resp EXCEPT ![p] =
                               [items |-> items, enriched |-> <<>>,
                                scn |-> scn]]
                /\ errors' = [errors EXCEPT ![p] = @ + 1]
                /\ pc' = [pc EXCEPT ![p] = "failed"]
                /\ UNCHANGED <<cache, result>>
           ELSE /\ resp' = [resp EXCEPT ![p] =
                               [items |-> items, enriched |-> enrichedRepos,
                                scn |-> scn]]
                /\ cache' = CacheSet(cache, SearchCacheKey(req[p]), res, now)
                /\ result' = [result EXCEPT ![p] = res]
                /\ errors' = errors
                /\ pc' = [pc EXCEPT ![p] =
                             IF op[p] = "search" THEN "done" ELSE "trendCont"]
    /\ UNCHANGED <<now, rlVars, wakeAt, callNow, op, histVars, req,
                   extLog, extBy, searchQuery, cancelled, seq, lookups, nCalls,
                   nTicks>>
    /\ UNCHANGED <<compatVars, combineVars, callVars, listVars, analysisCache>>

\* the search call of request p is answered with n items and the enrichment
\* lookups end as in scenario scn: lines 93-110
SearchSucceeds(p, n, pattern, scn) ==
    /\ pc[p] = "searching"
    /\ op[p] \in {"search", "trending"}
    /\ LET items == Page(n, pattern)
           enrichedRepos == enhancedEnrichment(items, scn, now)
           filteredRepos == applyAdvancedFilters(enrichedRepos, req[p].filters)
           res == EnhancedResult(filteredRepos, n, req[p].page)
       IN  /\ resp' = [resp EXCEPT ![p] =
                          [items |-> items, enriched |-> enrichedRepos,
                           scn |-> scn]]
           /\ cache' = CacheSet(cache, SearchCacheKey(req[p]), res, now)
           /\ result' = [result EXCEPT ![p] = res]
    /\ pc' = [pc EXCEPT ![p] = IF op[p] = "search" THEN "done" ELSE "trendCont"]
    /\ UNCHANGED <<now, rlVars, wakeAt, callNow, op, histVars, req, errors,
                   extLog, extBy, searchQuery, cancelled, seq, lookups, nCalls, nTicks>>
    /\ UNCHANGED <<compatVars, combineVars, callVars, listVars, analysisCache>>

\* (a faulty variant of SearchFails, for sensitivity: the failure is cached as an empty result)
SearchFailsCachesEmpty(p) ==
    /\ pc[p] = "searching"
    /\ op[p] \in {"search", "trending"}
    /\ errors' = [errors EXCEPT ![p] = @ + 1]
    /\ pc' = [pc EXCEPT ![p] = "failed"]
    /\ cache' = CacheSet(cache, SearchCacheKey(req[p]),
                         EnhancedResult(<<>>, 0, req[p].page), now)
    /\ UNCHANGED <<now, rlVars, wakeAt, callNow, op, histVars, req,
                   result, resp, extLog, extBy, searchQuery, cancelled, seq, lookups,
                   nCalls, nTicks>>
    /\ UNCHANGED <<compatVars, combineVars, callVars, listVars, analysisCache>>

\* the search call of request p fails (or the enrichment throws): the catch
\* of lines 111-114 rethrows; getTrendingWithAnalysis lets the error through
SearchFails(p) ==
    /\ pc[p] = "searching"
    /\ op[p] \in {"search", "trending"}
    /\ errors' = [errors EXCEPT ![p] = @ + 1]
    /\ pc' = [pc EXCEPT ![p] = "failed"]
    /\ UNCHANGED <<now, rlVars, wakeAt, callNow, op, histVars, cache, req,
                   result, resp, extLog, extBy, searchQuery, cancelled, seq, lookups, nCalls, nTicks>>
    /\ UNCHANGED <<compatVars, combineVars, callVars, listVars, analysisCache>>

\* getTrendingWithAnalysis after its enhancedSearch returned (lines 147-159)
TrendingContinue(p) ==
    /\ pc[p] = "trendCont"
    /\ LET trendingAnalysis == TrendingAnalysis(result[p])
       IN  /\ cache' = CacheSet(cache, TrendingCacheKey, trendingAnalysis, now)
           /\ result' = [result EXCEPT ![p] = trendingAnalysis]
    /\ pc' = [pc EXCEPT ![p] = "done"]
    /\ UNCHANGED <<now, rlVars, wakeAt, callNow, op, histVars, req, errors,
                   resp, extLog, extBy, searchQuery, cancelled, seq, lookups, nCalls, nTicks>>
    /\ UNCHANGED <<compatVars, combineVars, callVars, listVars, analysisCache>>

\* GitHubSearchEngine.searchRepositories is called: the search call goes out
\* (part_001 lines 64-78)
SearchRepositories(p, r) ==
    /\ StartOp(p, "basic", r)
    /\ pc' = [pc EXCEPT ![p] = "searching"]
    /\ result' = [result EXCEPT ![p] = NoResult]
    /\ extBy' = [extBy EXCEPT ![p] = 1]
    /\ searchQuery' = [searchQuery EXCEPT ![p] =
           buildSmartQuery(<<r.query>>, r.filters, arrays[exclusionList])]
    /\ lookups' = [lookups EXCEPT ![p] = <<>>]
    /\ UNCHANGED <<now, rlVars, wakeAt, callNow, histVars, cache, extLog,
                   nTicks>>
    /\ UNCHANGED <<compatVars, combineVars, callVars, listVars, analysisCache>>

\* its search call is answered with n items (part_001 lines 80-87)
BasicSucceeds(p, n, pattern) ==
    /\ pc[p] = "searching"
    /\ op[p] = "basic"
    /\ LET items == Page(n, pattern)
           repositories == enrichRepositories(items, now)
       IN  /\ resp' = [resp EXCEPT ![p] =
                          [items |-> items, enriched |-> repositories]]
           /\ result' = [result EXCEPT ![p] =
                            BasicResult(repositories, items, n, req[p].page)]
    /\ pc' = [pc EXCEPT ![p] = "done"]
    /\ UNCHANGED <<now, rlVars, wakeAt, callNow, op, histVars, cache, req,
                   errors, extLog, extBy, searchQuery, cancelled, seq, lookups, nCalls, nTicks>>
    /\ UNCHANGED <<compatVars, combineVars, callVars, listVars, analysisCache>>

\* its search call fails (part_001 lines 88-91)
BasicFails(p) ==
    /\ pc[p] = "searching"
    /\ op[p] = "basic"
    /\ errors' = [errors EXCEPT ![p] = @ + 1]
    /\ pc' = [pc EXCEPT ![p] = "failed"]
    /\ UNCHANGED <<now, rlVars, wakeAt, callNow, op, histVars, cache, req,
                   result, resp, extLog, extBy, searchQuery, cancelled, seq, lookups, nCalls, nTicks>>
    /\ UNCHANGED <<compatVars, combineVars, callVars, listVars, analysisCache>>

\* the caller of request p gives up (timeout, abort signal) while p is
\* suspended in waitIfNeeded; neither waitIfNeeded (line 521) nor
\* enhancedSearch (lines 65-69) takes a signal, so nothing else changes
Cancel(p) ==
    /\ pc[p] \in {"quotaWait", "intervalWait"}
    /\ op[p] \in {"search", "trending"}
    /\ ~cancelled[p]
    /\ cancelled' = [cancelled EXCEPT ![p] = TRUE]
    /\ UNCHANGED <<now, rlVars, procVars, histVars, cache, req, result, errors,
                   resp, extLog, extBy, searchQuery, seq, lookups, nCalls, nTicks>>
    /\ UNCHANGED <<compatVars, combineVars, callVars, listVars, analysisCache>>

\* RateLimitManager.updateLimits (lines 554-557)
UpdateLimits(r, resetSeconds) ==
    /\ epoch < MaxUpdates
    /\ remaining' = r
    /\ resetTime' = resetSeconds * 1000
    /\ epoch' = epoch + 1
    /\ quotaAtUpdate' = r
    /\ passedSince' = 0
    /\ UNCHANGED <<now, lastRequestTime, requestCount, procVars, prevStamp, chk,
                   decBy, searchVars, nCalls, nTicks>>
    /\ UNCHANGED <<compatVars, combineVars, callVars, listVars, analysisCache>>

\* the clock moves by d ms
Tick(d) ==
    /\ nTicks < MaxTicks
    /\ now' = now + d
    /\ nTicks' = nTicks + 1
    /\ UNCHANGED <<rlVars, procVars, histVars, searchVars, nCalls>>
    /\ UNCHANGED <<compatVars, combineVars, callVars, listVars, analysisCache>>

Waiting == {p \in Procs : pc[p] \in {"quotaWait", "intervalWait"}}

\* the clock moves to the next timer expiry
TickToTimer ==
    /\ \E p \in Waiting :
          /\ wakeAt[p] > now
          /\ \A q \in Waiting : wakeAt[q] > now => wakeAt[p] <= wakeAt[q]
          /\ now' = wakeAt[p]
    /\ UNCHANGED <<rlVars, procVars, histVars, searchVars, nCalls, nTicks>>
    /\ UNCHANGED <<compatVars, combineVars, callVars, listVars, analysisCache>>

----------------------------------------------------------------------------
(* The rate limiter under concurrent callers *)

RLTickSteps == {1, minInterval - 1}
UpdateRemaining == {0, LowWater + 1}
UpdateResetSeconds == {2}

Init ==
    /\ now = StartTime
    /\ lastRequestTime = 0
    /\ requestCount = 0
    /\ resetTime = 0
    /\ remaining = MaxQuota
    /\ pc = [p \in Procs |-> "idle"]
    /\ wakeAt = [p \in Procs |-> 0]
    /\ callNow = [p \in Procs |-> 0]
    /\ op = [p \in Procs |-> "none"]
    /\ prevStamp = -1
    /\ epoch = 0
    /\ quotaAtUpdate = MaxQuota
    /\ passedSince = 0
    /\ chk = [p \in Procs |-> NoCheck]
    /\ decBy = [p \in Procs |-> 0]
    /\ cache = <<>>
    /\ req = [p \in Procs |-> NoRequest]
    /\ result = [p \in Procs |-> NoResult]
    /\ errors = [p \in Procs |-> 0]
    /\ resp = [p \in Procs |-> NoResponse]
    /\ extLog = <<>>
    /\ extBy = [p \in Procs |-> 0]
    /\ searchQuery = [p \in Procs |-> NoQuery]
    /\ cancelled = [p \in Procs |-> FALSE]
    /\ seq = [p \in Procs |-> 0]
    /\ lookups = [p \in Procs |-> <<>>]
    /\ nCalls = 0
    /\ nTicks = 0
    /\ compatOp = "none"
    /\ compatPc = "idle"
    /\ compatRepos = <<>>
    /\ compatOut = NoResult
    /\ analysesRun = 0
    /\ pending = {}
    /\ analyzerCache = {}
    /\ nCompat = 0
    /\ combinations = <<>>
    /\ inflight = [p \in Procs |-> NoCall]
    /\ combLog = <<>>
    /\ nCombine = 0
    /\ fn = "none"
    /\ arg = <<>>
    /\ out = NoResult
    /\ built = NoBuild
    /\ arrays = <<InitialExclusionList>>
    /\ exclusionList = 1
    /\ nListOps = 0
    /\ analysisCache = <<>>

NextRL ==
    \/ \E p \in Procs : AnalyzeRepositorySecurity(p)
    \/ \E p \in Procs : QuotaTimer(p)
    \/ \E p \in Procs : IntervalTimer(p)
    \/ \E r \in UpdateRemaining, t \in UpdateResetSeconds : UpdateLimits(r, t)
    \/ \E d \in RLTickSteps : Tick(d)
    \/ TickToTimer

SpecRL == Init /\ [][NextRL]_vars

-----------------------------------------------------------------------------
(* The rate limiter under one caller: each waitIfNeeded call starts after  *)
(* the one before has completed.  updateLimits may be called at any time.  *)
(* The long clock step brings the clock to half an interval before the     *)
(* reset time that updateLimits sets.                                      *)

SequentialTickSteps == {1, minInterval - 1, 1000 - minInterval \div 2}

NextSequential ==
    \/ AnalyzeRepositorySecurity(1)
    \/ QuotaTimer(1)
    \/ IntervalTimer(1)
    \/ \E r \in UpdateRemaining, t \in UpdateResetSeconds : UpdateLimits(r, t)
    \/ \E d \in SequentialTickSteps : Tick(d)
    \/ TickToTimer

SpecSequential == Init /\ [][NextSequential]_vars

----------------------------------------------------------------------------
(* Searches and their callers.  Nothing in the program calls             *)
(* updateLimits, so it is no step here.                                    *)

Request(f, g) == [query |-> "react", filters |-> f, page |-> g]
SearchRequests ==
    { Request(<< <<"minStars", 100>> >>, 1),
      Request(<< <<"codeQuality", "good">> >>, 1),
      Request(<< <<"codeQuality", "excellent">> >>, 2) }
\* answers of the external API to a search asking for 50 items, with the way
\* the enrichment lookups end
Responses ==
    { [n |-> per_page_enhanced, pattern |-> <<"star">>, scn |-> "ok"],
      [n |-> per_page_enhanced, pattern |-> <<"star", "mid">>,
       scn |-> "oddFail"],
      [n |-> per_page_enhanced - 1, pattern |-> <<"star", "mid">>,
       scn |-> "ok"] }
BasicRequests == { Request(<< <<"minStars", 100>> >>, 2) }
BasicResponses ==
    { [n |-> per_page_basic, pattern |-> <<"star", "mid">>],
      [n |-> per_page_basic - 1, pattern |-> <<"star", "mid">>] }

(* Requests racing each other; the clock is moved by the timers alone *)
NextSearch ==
    \/ \E p \in Procs, r \in SearchRequests : EnhancedSearch(p, r)
    \/ \E p \in Procs : GetTrendingWithAnalysis(p)
    \/ \E p \in Procs, r \in BasicRequests : SearchRepositories(p, r)
    \/ \E p \in Procs : IntervalTimer(p)
    \/ \E p \in Procs, a \in Responses :
            SearchSucceeds(p, a.n, a.pattern, a.scn)
    \/ \E p \in Procs : SearchFails(p)
    \/ \E p \in Procs : TrendingContinue(p)
    \/ \E p \in Procs, a \in BasicResponses :
            BasicSucceeds(p, a.n, a.pattern)
    \/ \E p \in Procs : BasicFails(p)
    \/ \E p \in Procs : Cancel(p)
    \/ TickToTimer

SpecSearch == Init /\ [][NextSearch]_vars

(* Requests made one after another, over several cache lifetimes; a     *)
(* request takes no time but for its timers                                *)
CacheTickSteps == {1, cacheTimeout - 1}

NextCache ==
    \/ \E r \in SearchRequests : EnhancedSearch(1, r)
    \/ GetTrendingWithAnalysis(1)
    \/ IntervalTimer(1)
    \/ \E a \in Responses : SearchSucceeds(1, a.n, a.pattern, a.scn)
    \/ SearchFails(1)
    \/ TrendingContinue(1)
    \/ \E d \in CacheTickSteps : Free(1) /\ Tick(d)
    \/ TickToTimer

SpecCache == Init /\ [][NextCache]_vars

----------------------------------------------------------------------------
(* Compatibility analysis: EnhancedGitHubAPI.analyzeProjectCompatibility   *)
(* and AICodeAnalyzer.getCompatibilityScore.  A repository is its          *)
(* full_name; one operation runs at a time.                                *)

RepoNames == {"a/x", "b/y"}
RECURSIVE ListsUpTo(_)
ListsUpTo(n) ==
    IF n = 0 THEN {<<>>}
    ELSE LET shorter == ListsUpTo(n - 1)
         IN  shorter \cup {Append(l, r) : l \in {k \in shorter : Len(k) = n - 1},
                                          r \in RepoNames}
RepoLists == ListsUpTo(MaxRepos)

AddMore == "Add more repositories to analyze compatibility"
AppearCompatible == "Projects appear to be compatible"

StartCompat(name, repos) ==
    /\ compatPc \in {"idle", "done"}
    /\ nCompat < MaxCompat
    /\ nCompat' = nCompat + 1
    /\ compatOp' = name
    /\ compatRepos' = repos

\* (a faulty variant of AnalyzeProjectCompatibility, for sensitivity: only the empty list is too short)
AnalyzeProjectCompatibilityEmptyOnly(repos) ==
    /\ StartCompat("project", repos)
    /\ IF Len(repos) < 1
       THEN /\ compatOut' = [compatibilityScore |-> 100,
                             conflicts |-> <<>>,
                             suggestions |-> <<AddMore>>]
            /\ compatPc' = "done"
            /\ analysesRun' = 0
       ELSE /\ compatOut' = NoResult
            /\ compatPc' = "frameworks"
            /\ analysesRun' = 1
    /\ UNCHANGED <<mainVars, combineVars, callVars, listVars, analysisCache, pending, analyzerCache>>

\* analyzeProjectCompatibility is called (lines 226-240): the short-list
\* return, or the call of detectFrameworksDetailed
AnalyzeProjectCompatibility(repos) ==
    /\ StartCompat("project", repos)
    /\ IF Len(repos) < 2
       THEN /\ compatOut' = [compatibilityScore |-> 100,
                             conflicts |-> <<>>,
                             suggestions |-> <<AddMore>>]
            /\ compatPc' = "done"
            /\ analysesRun' = 0
       ELSE /\ compatOut' = NoResult
            /\ compatPc' = "frameworks"
            /\ analysesRun' = 1
    /\ UNCHANGED <<mainVars, combineVars, callVars, listVars, analysisCache, pending, analyzerCache>>

\* detectFrameworksDetailed returned (line 240); analyzeLicenseCompatibility
\* is called (line 243)
LicenseStep ==
    /\ compatPc = "frameworks"
    /\ compatPc' = "licenses"
    /\ analysesRun' = analysesRun + 1
    /\ UNCHANGED <<mainVars, combineVars, callVars, listVars, analysisCache, compatOp, compatRepos, compatOut, pending,
                   analyzerCache, nCompat>>

\* analyzeLicenseCompatibility returned; analyzeDependencyCompatibility is
\* called (line 246)
DependencyStep ==
    /\ compatPc = "licenses"
    /\ compatPc' = "dependencies"
    /\ analysesRun' = analysesRun + 1
    /\ UNCHANGED <<mainVars, combineVars, callVars, listVars, analysisCache, compatOp, compatRepos, compatOut, pending,
                   analyzerCache, nCompat>>

\* lines 491-509: the analyses of the lists are placeholders
detectFrameworksDetailed(repos) == <<>>
analyzeLicenseCompatibility(repos) == [conflicts |-> <<>>]
analyzeDependencyCompatibility(repos) == <<>>
calculateCompatibilityScore(frameworks, licenses, dependencies) == 85
generateCompatibilitySuggestions(frameworks, dependencies) ==
    <<AppearCompatible>>

\* analyzeDependencyCompatibility returned: lines 249-259
CompatibilityReturns ==
    /\ compatPc = "dependencies"
    /\ LET frameworks == detectFrameworksDetailed(compatRepos)
           licenseCompatibility == analyzeLicenseCompatibility(compatRepos)
           dependencyConflicts == analyzeDependencyCompatibility(compatRepos)
       IN  compatOut' =
             [compatibilityScore |->
                 calculateCompatibilityScore(frameworks, licenseCompatibility,
                                             dependencyConflicts),
              conflicts |-> dependencyConflicts \o licenseCompatibility.conflicts,
              suggestions |->
                 generateCompatibilitySuggestions(frameworks,
                                                  dependencyConflicts)]
    /\ compatPc' = "done"
    /\ UNCHANGED <<mainVars, combineVars, callVars, listVars, analysisCache, compatOp, compatRepos, analysesRun, pending,
                   analyzerCache, nCompat>>

\* AICodeAnalyzer.getCompatibilityScore is called (ai-code-analyzer.ts lines
\* 92-97): the short-list return, or one analyzeRepository call per
\* repository, each answered from the analyzer's cache (lines 45-49) or left
\* waiting for its fetches and the model's answer
GetCompatibilityScore(repos) ==
    /\ StartCompat("score", repos)
    /\ IF Len(repos) < 2
       THEN /\ compatOut' = 100
            /\ compatPc' = "done"
            /\ analysesRun' = 0
            /\ pending' = {}
       ELSE /\ compatOut' = NoResult
            /\ compatPc' = "analyzing"
            /\ analysesRun' = Len(repos)
            /\ pending' = {i \in 1..Len(repos) : repos[i] \notin analyzerCache}
    /\ UNCHANGED <<mainVars, combineVars, callVars, listVars, analysisCache, analyzerCache>>

\* the analyzeRepository call for the i-th repository returns: with the
\* analysis, which it caches (lines 76-81), or with the fallback of the
\* catch (lines 83-86)
AnalyzeRepositoryReturns(i, ok) ==
    /\ compatPc = "analyzing"
    /\ i \in pending
    /\ pending' = pending \ {i}
    /\ analyzerCache' = IF ok THEN analyzerCache \cup {compatRepos[i]}
                        ELSE analyzerCache
    /\ UNCHANGED <<mainVars, combineVars, callVars, listVars, analysisCache, compatOp, compatPc, compatRepos, compatOut,
                   analysesRun, nCompat>>

\* ai-code-analyzer.ts lines 230-243: placeholders
calculateFrameworkCompatibility == 85
analyzeDependencyConflicts == 90
analyzeArchitecturalPatterns == 80

\* every analysis is there: lines 99-113
ScoreReturns ==
    /\ compatPc = "analyzing"
    /\ pending = {}
    /\ compatOut' = Round(calculateFrameworkCompatibility * 400
                          + analyzeDependencyConflicts * 400
                          + analyzeArchitecturalPatterns * 200)
    /\ compatPc' = "done"
    /\ UNCHANGED <<mainVars, combineVars, callVars, listVars, analysisCache, compatOp, compatRepos, analysesRun, pending,
                   analyzerCache, nCompat>>

NextCompat ==
    \/ \E repos \in RepoLists : AnalyzeProjectCompatibility(repos)
    \/ LicenseStep
    \/ DependencyStep
    \/ CompatibilityReturns
    \/ \E repos \in RepoLists : GetCompatibilityScore(repos)
    \/ \E i \in 1..MaxRepos, ok \in BOOLEAN : AnalyzeRepositoryReturns(i, ok)
    \/ ScoreReturns

SpecCompat == Init /\ [][NextCompat]_vars

----------------------------------------------------------------------------
----------------------------------------------------------------------------
(* ProjectCombinator (src/unnamed/part_000).  A repository is read through *)
(* its id (a string of digits, here the sequence of its characters), its   *)
(* name (a word), its description and its topics (sequences of words).     *)

FrameworkNeedles == <<"nextjs", "next.js", "remix", "react", "vue", "angular",
                      "express", "fastapi", "django">>

\* word.toLowerCase(), for the words of the model
toLowerCase(word) ==
    CASE word = "React" -> "react"
      [] word = "Next.js" -> "next.js"
      [] word = "Angular" -> "angular"
      [] OTHER -> word

\* word.includes(needle), for the words of the model
Includes(word, needle) ==
    \/ word = needle
    \/ word = "preact" /\ needle = "react"
    \/ word = "nextjs-remix" /\ needle \in {"nextjs", "remix"}
    \/ word = "expression" /\ needle = "express"

\* allText.includes(needle), allText being the name, the description and the
\* topics in lower case with spaces between (lines 119-123): no needle holds
\* a space, so it lies in one word
TextIncludes(repo, needle) ==
    \E w \in {repo.name} \cup {repo.description[i] :
                                   i \in 1..Len(repo.description)}
                         \cup {repo.topics[i] : i \in 1..Len(repo.topics)} :
        Includes(toLowerCase(w), needle)

\* (a faulty variant of detectFramework, for sensitivity: after nextjs the
\* last needle that occurs wins, not the first)
detectFrameworkLastWins(repo) ==
    IF TextIncludes(repo, "nextjs") \/ TextIncludes(repo, "next.js")
    THEN "nextjs"
    ELSE IF \E i \in 3..Len(FrameworkNeedles) :
                TextIncludes(repo, FrameworkNeedles[i])
    THEN FrameworkNeedles[CHOOSE i \in 3..Len(FrameworkNeedles) :
            /\ TextIncludes(repo, FrameworkNeedles[i])
            /\ \A j \in (i + 1)..Len(FrameworkNeedles) :
                  ~TextIncludes(repo, FrameworkNeedles[j])]
    ELSE "unknown"

\* ProjectCombinator.detectFramework (lines 118-135)
detectFramework(repo) ==
    IF TextIncludes(repo, "nextjs") \/ TextIncludes(repo, "next.js")
    THEN "nextjs"
    ELSE IF \E i \in 3..Len(FrameworkNeedles) :
                TextIncludes(repo, FrameworkNeedles[i])
    THEN FrameworkNeedles[CHOOSE i \in 3..Len(FrameworkNeedles) :
            /\ TextIncludes(repo, FrameworkNeedles[i])
            /\ \A j \in 3..(i - 1) : ~TextIncludes(repo, FrameworkNeedles[j])]
    ELSE "unknown"

\* [...new Set(l)]: the first occurrence of each element, in order
RECURSIVE Dedupe(_)
Dedupe(l) ==
    IF l = <<>> THEN <<>>
    ELSE LET front == Dedupe(SubSeq(l, 1, Len(l) - 1))
             last == l[Len(l)]
         IN  IF \E i \in 1..Len(front) : front[i] = last
             THEN front
             ELSE Append(front, last)

RECURSIVE Flatten(_)
Flatten(ll) == IF ll = <<>> THEN <<>> ELSE Head(ll) \o Flatten(Tail(ll))

TopicDependencies == {"typescript", "tailwindcss", "prisma", "stripe",
                      "framer-motion"}

\* ProjectCombinator.extractDependencies (lines 171-216)
extractDependencies(repo) ==
    LET framework == detectFramework(repo)
        fromFramework ==
            CASE framework = "nextjs" -> <<"next", "react", "react-dom">>
              [] framework = "remix" -> <<"@remix-run/node", "@remix-run/react">>
              [] framework = "react" -> <<"react", "react-dom">>
              [] framework = "vue" -> <<"vue">>
              [] OTHER -> <<>>
        IsDependency(topic) == topic \in TopicDependencies
    IN  Dedupe(fromFramework \o SelectSeq(repo.topics, IsDependency))

\* ProjectCombinator.analyzeRepository (lines 100-113): the fields that
\* depend on the repository (codeQuality is repo.qualityScore || 0)
analyzeRepository(repo) ==
    [repository |-> repo,
     framework |-> detectFramework(repo),
     dependencies |-> extractDependencies(repo),
     codeQuality |-> IF "qualityScore" \in DOMAIN repo
                     THEN repo.qualityScore ELSE 0]

\* the number of fw in frameworks
Count(frameworks, fw) ==
    Cardinality({i \in 1..Len(frameworks) : frameworks[i] = fw})

\* (a faulty variant of SortByCount, for sensitivity: an entry goes before
\* the entries of its own count, so that the sort is not stable)
RECURSIVE SortByCountUnstable(_)
SortByCountUnstable(entries) ==
    IF entries = <<>> THEN <<>>
    ELSE LET front == SortByCountUnstable(SubSeq(entries, 1, Len(entries) - 1))
             e == entries[Len(entries)]
             k == Cardinality({i \in 1..Len(front) : front[i][2] > e[2]})
         IN  SubSeq(front, 1, k) \o <<e>> \o SubSeq(front, k + 1, Len(front))

\* entries.sort(([,a], [,b]) => b - a): a stable sort, larger counts first;
\* each entry goes behind the entries that are not smaller
RECURSIVE SortByCount(_)
SortByCount(entries) ==
    IF entries = <<>> THEN <<>>
    ELSE LET front == SortByCount(SubSeq(entries, 1, Len(entries) - 1))
             e == entries[Len(entries)]
             k == Cardinality({i \in 1..Len(front) : front[i][2] >= e[2]})
         IN  SubSeq(front, 1, k) \o <<e>> \o SubSeq(front, k + 1, Len(front))

\* ProjectCombinator.findDominantFramework (lines 305-313); the keys of
\* counts are in the order in which reduce first met them
findDominantFramework(frameworks) ==
    LET keys == Dedupe(frameworks)
        counts == [i \in 1..Len(keys) |->
                      <<keys[i], Count(frameworks, keys[i])>>]
        sorted == SortByCount(counts)
    IN  IF sorted = <<>> THEN "react" ELSE sorted[1][1]

\* ProjectCombinator.determineMergeStrategy (lines 289-303)
determineMergeStrategy(analyses, targetFramework) ==
    LET frameworks == [i \in 1..Len(analyses) |-> analyses[i].framework]
        dominantFramework ==
            IF targetFramework \notin {Undefined, ""} THEN targetFramework
            ELSE findDominantFramework(frameworks)
    IN  [type |-> "intelligent",
         targetFramework |-> dominantFramework,
         conflictResolution |-> "smart-merge",
         componentMerging |-> "selective",
         dependencyStrategy |-> "unified"]

\* (a faulty variant of resolveDependencies, for sensitivity: the lists are
\* joined as they are)
resolveDependenciesConcat(analyses) ==
    Flatten([i \in 1..Len(analyses) |-> analyses[i].dependencies])

\* ProjectCombinator.resolveDependencies (lines 331-335)
resolveDependencies(analyses) ==
    Dedupe(Flatten([i \in 1..Len(analyses) |-> analyses[i].dependencies]))

\* ProjectCombinator.generateScripts (lines 337-363)
generateScripts(framework) ==
    LET baseScripts == [dev |-> "npm run dev", build |-> "npm run build",
                        start |-> "npm start", lint |-> "eslint . --ext .ts,.tsx",
                        typecheck |-> "tsc --noEmit"]
    IN  CASE framework = "nextjs" ->
               [baseScripts EXCEPT !.dev = "next dev", !.build = "next build",
                                   !.start = "next start"]
          [] framework = "remix" ->
               [baseScripts EXCEPT !.dev = "remix dev", !.build = "remix build",
                                   !.start = "remix-serve build"]
          [] OTHER -> baseScripts

\* ProjectCombinator.generateDeploymentConfig (lines 365-372)
generateDeploymentConfig(framework) ==
    [platform |-> "vercel",
     envVars |-> <<"GITHUB_TOKEN", "DATABASE_URL">>,
     buildCommand |-> "npm run build",
     outputDirectory |-> IF framework = "nextjs" THEN ".next" ELSE "build"]

\* the characters of an id, in the order of their UTF-16 code
CharOrder == <<"-", "0", "1", "2", "3", "4", "5", "6", "7", "8", "9">>
CharRank(c) == CHOOSE i \in 1..Len(CharOrder) : CharOrder[i] = c

\* a < b as strings
RECURSIVE LexLess(_, _)
LexLess(a, b) ==
    IF b = <<>> THEN FALSE
    ELSE IF a = <<>> THEN TRUE
    ELSE IF Head(a) # Head(b) THEN CharRank(Head(a)) < CharRank(Head(b))
    ELSE LexLess(Tail(a), Tail(b))

\* ids.sort(): the default order, that of the ids as strings
RECURSIVE SortIds(_)
SortIds(ids) ==
    IF ids = <<>> THEN <<>>
    ELSE LET front == SortIds(SubSeq(ids, 1, Len(ids) - 1))
             e == ids[Len(ids)]
             k == Cardinality({i \in 1..Len(front) : ~LexLess(e, front[i])})
         IN  SubSeq(front, 1, k) \o <<e>> \o SubSeq(front, k + 1, Len(front))

\* ids.join('-')
RECURSIVE Join(_)
Join(ids) ==
    IF ids = <<>> THEN <<>>
    ELSE IF Len(ids) = 1 THEN ids[1]
    ELSE ids[1] \o <<"-">> \o Join(Tail(ids))

IdSliceLength == 20

\* ProjectCombinator.generateCombinationId (lines 281-284)
generateCombinationId(request, clock) ==
    LET repoIds == Join(SortIds([i \in 1..Len(request.repositories) |->
                                    request.repositories[i].id]))
    IN  <<"combo", clock,
          SubSeq(repoIds, 1, Min(IdSliceLength, Len(repoIds)))>>

\* combineProjects is called (lines 50-56): the id is made and
\* analyzeRepository, which never suspends, has run for every repository
CombineProjects(p, request) ==
    /\ inflight[p] = NoCall
    /\ \A q \in Procs : q < p => inflight[q] # NoCall
    /\ nCombine < MaxCombine
    /\ nCombine' = nCombine + 1
    /\ inflight' = [inflight EXCEPT ![p] =
          [stage |-> "analyses",
           request |-> request,
           combinationId |-> generateCombinationId(request, now),
           analyses |-> [i \in 1..Len(request.repositories) |->
                            analyzeRepository(request.repositories[i])]]]
    /\ UNCHANGED <<mainVars, compatVars, callVars, listVars, analysisCache, combinations, combLog>>

\* the analyses are there (lines 58-65): the strategy, the structure and
\* the call of generateFiles
StrategyStep(p) ==
    /\ inflight[p].stage = "analyses"
    /\ inflight' = [inflight EXCEPT ![p] =
          [stage |-> "files",
           request |-> inflight[p].request,
           combinationId |-> inflight[p].combinationId,
           analyses |-> inflight[p].analyses,
           mergeStrategy |->
               determineMergeStrategy(inflight[p].analyses,
                                      inflight[p].request.targetFramework)]]
    /\ UNCHANGED <<mainVars, compatVars, callVars, listVars, analysisCache, combinations, combLog,
                   nCombine>>

\* (a faulty variant of CombinationResult, for sensitivity: the dependencies
\* of the earlier combinations are carried over)
CombinationResultCarried(c) ==
    [id |-> c.combinationId,
     name |-> c.request.projectName,
     dependencies |->
        Dedupe(Flatten([k \in 1..Len(combLog) |->
                           combLog[k].result.dependencies])
               \o resolveDependencies(c.analyses)),
     scripts |-> generateScripts(c.request.targetFramework),
     deploymentConfig |-> generateDeploymentConfig(c.request.targetFramework)]

\* lines 67-90: the result, but for the structure, the files and the
\* instructions
CombinationResult(c) ==
    [id |-> c.combinationId,
     name |-> c.request.projectName,
     dependencies |-> resolveDependencies(c.analyses),
     scripts |-> generateScripts(c.request.targetFramework),
     deploymentConfig |-> generateDeploymentConfig(c.request.targetFramework)]

\* generateFiles returned (lines 67-94): the result is stored and returned
CombineReturns(p) ==
    /\ inflight[p].stage = "files"
    /\ LET result0 == CombinationResult(inflight[p])
       IN  /\ combinations' =
                (inflight[p].combinationId :> result0) @@ combinations
           /\ combLog' = Append(combLog,
                [request |-> inflight[p].request,
                 mergeStrategy |-> inflight[p].mergeStrategy,
                 result |-> result0])
    /\ inflight' = [inflight EXCEPT ![p] = NoCall]
    /\ UNCHANGED <<mainVars, compatVars, callVars, listVars, analysisCache, nCombine>>

\* ProjectCombinator.getCombination (lines 421-423)
getCombination(id) ==
    IF id \in DOMAIN combinations THEN combinations[id] ELSE Undefined

\* ProjectCombinator.getAllCombinations (lines 428-430), as a bag would be:
\* the number of stored results
getAllCombinationsLength == Cardinality(DOMAIN combinations)

Id(first, last, length) ==
    [i \in 1..length |-> IF i = 1 THEN first
                         ELSE IF i = length THEN last ELSE "0"]
CombRepo(id, name, description, topics) ==
    [id |-> id, name |-> name, description |-> description, topics |-> topics]
RepoNext == CombRepo(Id("1", "1", 9), "nextjs", <<>>, <<"typescript">>)
RepoShop == CombRepo(Id("1", "2", 9), "shop", <<"next.js">>,
                     <<"react", "stripe", "typescript">>)
RepoRemix == CombRepo(Id("3", "3", 9), "remix", <<>>, <<>>)
RepoPreact == CombRepo(Id("3", "4", 9), "preact", <<>>, <<"tailwindcss">>)
RepoTool == CombRepo(Id("2", "5", 8), "tool", <<"cli">>, <<>>)

CombinationRequest(repositories, targetFramework) ==
    [repositories |-> repositories, projectName |-> "combined",
     targetFramework |-> targetFramework]
CombinationRequests ==
    { CombinationRequest(<<RepoNext, RepoShop>>, Undefined),
      CombinationRequest(<<RepoRemix, RepoNext>>, Undefined),
      CombinationRequest(<<RepoRemix, RepoShop, RepoNext>>, Undefined),
      CombinationRequest(<<RepoNext, RepoShop, RepoPreact>>, Undefined),
      CombinationRequest(<<RepoPreact, RepoTool>>, "remix") }

CombineTickSteps == {1}

NextCombine ==
    \/ \E p \in Procs, r \in CombinationRequests : CombineProjects(p, r)
    \/ \E p \in Procs : StrategyStep(p)
    \/ \E p \in Procs : CombineReturns(p)
    \/ \E d \in CombineTickSteps : Tick(d)

SpecCombine == Init /\ [][NextCombine]_vars

----------------------------------------------------------------------------
(* The merge strategy as a function of the detected frameworks *)

Frameworks == {"nextjs", "remix", "react", "unknown"}
RECURSIVE FrameworkLists(_)
FrameworkLists(n) ==
    IF n = 0 THEN {<<>>}
    ELSE LET shorter == FrameworkLists(n - 1)
         IN  shorter \cup {Append(l, f) : l \in {k \in shorter : Len(k) = n - 1},
                                          f \in Frameworks}
TargetFrameworks == {Undefined, "nextjs", "vue"}

\* one application of determineMergeStrategy, to analyses of these frameworks
DetermineMergeStrategy(frameworks, targetFramework) ==
    /\ fn = "none"
    /\ fn' = "determineMergeStrategy"
    /\ arg' = [frameworks |-> frameworks, targetFramework |-> targetFramework]
    /\ out' = determineMergeStrategy(
                 [i \in 1..Len(frameworks) |-> [framework |-> frameworks[i]]],
                 targetFramework)
    /\ UNCHANGED <<mainVars, compatVars, combineVars, built, listVars, analysisCache>>

NextStrategy ==
    \E frameworks \in FrameworkLists(MaxFrameworks),
       targetFramework \in TargetFrameworks :
        DetermineMergeStrategy(frameworks, targetFramework)

SpecStrategy == Init /\ [][NextStrategy]_vars

----------------------------------------------------------------------------
(* The quality scores as functions of a repository's metadata.  updated_at *)
(* is in days from the clock's origin: 0 is today, a positive value lies   *)
(* in the future.                                                          *)

Metadata ==
    [stargazers_count : {0, 5, 50, 10000, 99999},
     forks_count : {0, 3, 2000},
     open_issues_count : {0, 2, 1000},
     updated_at : {0 - 730, 0 - 600, 0 - 599, 0 - 30, 0, 20000},
     descLen : {0, 30, 50, 51, 200},
     nTopics : {0, 5}]

\* one application of GitHubSearchEngine.calculateQualityScore
CalculateQualityScore(repo) ==
    /\ fn = "none"
    /\ fn' = "calculateQualityScore"
    /\ arg' = [repo |-> repo, clock |-> now,
               sub |-> standardSubScores(repo, now)]
    /\ out' = calculateQualityScore(repo, now)
    /\ UNCHANGED <<mainVars, compatVars, combineVars, built, listVars, analysisCache>>

\* one application of EnhancedGitHubAPI.calculateEnhancedQualityScore
CalculateEnhancedQualityScore(repo, nLanguages, nContributors) ==
    /\ fn = "none"
    /\ fn' = "calculateEnhancedQualityScore"
    /\ arg' = [repo |-> repo, clock |-> now, nLanguages |-> nLanguages,
               nContributors |-> nContributors]
    /\ out' = calculateEnhancedQualityScore(repo, nLanguages, nContributors,
                                            now)
    /\ UNCHANGED <<mainVars, compatVars, combineVars, built, listVars, analysisCache>>

\* calculateQualityScore applied to two repositories at the same time
CompareQualityScores(a, b) ==
    /\ fn = "none"
    /\ fn' = "compareQualityScores"
    /\ arg' = [a |-> a, b |-> b, clock |-> now,
               sub |-> <<standardSubScores(a, now), standardSubScores(b, now)>>]
    /\ out' = <<calculateQualityScore(a, now), calculateQualityScore(b, now)>>
    /\ UNCHANGED <<mainVars, compatVars, combineVars, built, listVars, analysisCache>>

\* a popular repository updated today and a small one left for two years
PopularRepos ==
    {r \in Metadata : /\ r.stargazers_count = 10000 /\ r.forks_count = 2000
                      /\ r.updated_at = 0 /\ r.descLen = 200 /\ r.nTopics = 5}
NeglectedRepos ==
    {r \in Metadata : /\ r.stargazers_count = 5 /\ r.forks_count = 0
                      /\ r.updated_at = 0 - 730 /\ r.descLen = 0
                      /\ r.nTopics = 0}

\* repositories without stars, forks, open issues and topics, described in
\* 50 characters at most
BareRepos ==
    {r \in Metadata : /\ r.stargazers_count = 0 /\ r.forks_count = 0
                      /\ r.open_issues_count = 0 /\ r.descLen <= 50
                      /\ r.nTopics = 0}

NextScore ==
    \/ \E repo \in Metadata : CalculateQualityScore(repo)
    \/ \E a \in PopularRepos, b \in NeglectedRepos : CompareQualityScores(a, b)
    \/ \E a \in BareRepos, b \in BareRepos : CompareQualityScores(a, b)
    \/ \E repo \in Metadata, l \in {0, 5}, c \in {0, 10} :
          CalculateEnhancedQualityScore(repo, l, c)

SpecScore == Init /\ [][NextScore]_vars

-----------------------------------------------------------------------------
(* The query builders applied to chosen inputs at the current time, the    *)
(* build before the last one being kept.                                   *)

Builders == {"buildEnhancedQuery", "buildSmartQuery"}

LastBuild ==
    IF fn \in Builders THEN [fn |-> fn, arg |-> arg, out |-> out] ELSE NoBuild

BuildEnhancedQuery(query, filters) ==
    /\ fn' = "buildEnhancedQuery"
    /\ arg' = [query |-> <<query>>, filters |-> filters, clock |-> now]
    /\ out' = buildEnhancedQuery(<<query>>, filters, now)
    /\ built' = LastBuild
    /\ UNCHANGED <<mainVars, compatVars, combineVars, listVars, analysisCache>>

BuildSmartQuery(query, filters, excluded) ==
    /\ fn' = "buildSmartQuery"
    /\ arg' = [query |-> <<query>>, filters |-> filters,
               exclusionList |-> excluded, clock |-> now]
    /\ out' = buildSmartQuery(<<query>>, filters, excluded)
    /\ built' = LastBuild
    /\ UNCHANGED <<mainVars, compatVars, combineVars, listVars, analysisCache>>

EnhancedFilters ==
    {<<>>,
     <<<<"license", <<"mit", "apache-2.0">>>>>>,
     <<<<"size", "medium">>>>,
     <<<<"activity", "active">>>>,
     <<<<"activity", "maintained">>>>,
     <<<<"activity", "stale">>>>,
     <<<<"license", <<>>>>, <<"size", "small">>, <<"activity", "active">>>>}

SmartFilters ==
    {<<>>,
     <<<<"language", "typescript">>, <<"minStars", 0>>, <<"maxStars", 100>>>>,
     <<<<"topics", <<"ui", "css">>>>, <<"hasIssues", "true">>,
       <<"hasWiki", "false">>>>,
     <<<<"hasPages", "true">>, <<"archived", "false">>, <<"fork", "true">>>>}

Queries == {"", "react"}
ExclusionLists == {<<"Gzeu">>, <<"Gzeu", "spam">>}

\* a millisecond and a day
QueryTickSteps == {1, MsPerDay}

NextQuery ==
    \/ \E q \in Queries, f \in EnhancedFilters : BuildEnhancedQuery(q, f)
    \/ \E q \in Queries, f \in SmartFilters, x \in ExclusionLists :
          BuildSmartQuery(q, f, x)
    \/ \E d \in QueryTickSteps : Tick(d)

SpecQuery == Init /\ [][NextQuery]_vars

-----------------------------------------------------------------------------
(* Searches with several filters, made one after another *)

FilterRequests ==
    { Request(<< <<"language", "typescript">>, <<"minStars", 100>> >>, 1),
      Request(<< <<"minStars", 100>>, <<"language", "typescript">> >>, 1),
      Request(<< <<"size", "medium">>, <<"activity", "active">>,
                 <<"maxStars", 5000>>, <<"topics", <<"ui", "css">>>>,
                 <<"archived", "false">>, <<"fork", "true">> >>, 1) }

NextFilters ==
    \/ \E r \in FilterRequests : EnhancedSearch(1, r)
    \/ IntervalTimer(1)
    \/ \E a \in Responses : SearchSucceeds(1, a.n, a.pattern, a.scn)
    \/ SearchFails(1)
    \/ \E d \in CacheTickSteps : Free(1) /\ Tick(d)
    \/ TickToTimer

SpecFilters == Init /\ [][NextFilters]_vars

-----------------------------------------------------------------------------
(* Searches whose enrichment lookups fail, made one after another *)

EnrichResponses ==
    { [n |-> per_page_enhanced, pattern |-> <<"star", "mid">>, scn |-> c] :
        c \in {"ok", "oddFail", "mixed", "languagesFail", "contributorsFail",
               "bothFail"} }

NextEnrich ==
    \/ \E r \in SearchRequests : EnhancedSearch(1, r)
    \/ IntervalTimer(1)
    \/ \E a \in EnrichResponses : SearchSucceeds(1, a.n, a.pattern, a.scn)
    \/ SearchFails(1)
    \/ TickToTimer

SpecEnrich == Init /\ [][NextEnrich]_vars

-----------------------------------------------------------------------------
(* Search responses that report the quota.  The response of the external   *)
(* search call carries the headers x-ratelimit-remaining and               *)
(* x-ratelimit-reset (epoch seconds); the scenario of a response names     *)
(* what they hold.                                                         *)

RateLimitHeaders(scn) ==
    CASE scn = "quotaSpent" -> [remaining |-> 0, reset |-> 2]
      [] scn = "quotaLow" -> [remaining |-> LowWater, reset |-> 2]
      [] OTHER -> [remaining |-> LowWater + 1, reset |-> 2]

QuotaResponses ==
    { [n |-> per_page_enhanced, pattern |-> <<"star", "mid">>, scn |-> c] :
        c \in {"quotaSpent", "quotaLow", "quotaAmple"} }

NextQuota ==
    \/ \E r \in SearchRequests : EnhancedSearch(1, r)
    \/ IntervalTimer(1)
    \/ \E a \in QuotaResponses : SearchSucceeds(1, a.n, a.pattern, a.scn)
    \/ SearchFails(1)
    \/ \E d \in CacheTickSteps : Free(1) /\ Tick(d)
    \/ TickToTimer

SpecQuota == Init /\ [][NextQuota]_vars

-----------------------------------------------------------------------------
(* The exclusion list of GitHubSearchEngine.  An array is an object: the   *)
(* engine and its callers hold references into `arrays`.                   *)

MaxListOps == 4

\* part_001 lines 270-274: the array after the call
addToExclusionList(list, username) ==
    IF \E i \in 1..Len(list) : list[i] = username THEN list
    ELSE Append(list, username)

\* part_001 lines 279-281: the array that filter returns
removeFromExclusionList(list, username) ==
    LET Other(user) == user # username
    IN  SelectSeq(list, Other)

ListOp(name, a) ==
    /\ nListOps < MaxListOps
    /\ nListOps' = nListOps + 1
    /\ fn' = name
    /\ arg' = a
    /\ UNCHANGED <<mainVars, compatVars, combineVars, built, analysisCache>>

\* push changes the array the engine holds
AddToExclusionList(username) ==
    /\ ListOp("addToExclusionList", username)
    /\ arrays' = [arrays EXCEPT ![exclusionList] =
                     addToExclusionList(@, username)]
    /\ UNCHANGED <<exclusionList, out>>

\* filter makes a new array, which the engine holds from now on
RemoveFromExclusionList(username) ==
    /\ ListOp("removeFromExclusionList", username)
    /\ arrays' = Append(arrays, removeFromExclusionList(
                                    arrays[exclusionList], username))
    /\ exclusionList' = Len(arrays) + 1
    /\ UNCHANGED out

\* (a faulty variant of GetExclusionList, for sensitivity: the engine's own
\* array is returned)
GetExclusionListShared ==
    /\ ListOp("getExclusionList", <<>>)
    /\ out' = exclusionList
    /\ UNCHANGED <<arrays, exclusionList>>

\* part_001 lines 286-288: the spread makes a new array, which is returned
GetExclusionList ==
    /\ ListOp("getExclusionList", <<>>)
    /\ arrays' = Append(arrays, arrays[exclusionList])
    /\ out' = Len(arrays) + 1
    /\ UNCHANGED exclusionList

\* the caller pushes a name onto the array it was returned
PushToReturned(username) ==
    /\ fn \in {"getExclusionList", "push"}
    /\ ListOp("push", username)
    /\ arrays' = [arrays EXCEPT ![out] = Append(@, username)]
    /\ UNCHANGED <<exclusionList, out>>

UserNames == {"Gzeu", "spam"}

ExclusionRequests ==
    { Request(<< <<"minStars", 100>> >>, 1),
      [query |-> "", filters |-> <<>>, page |-> 1] }

NextExclusion ==
    \/ \E username \in UserNames : AddToExclusionList(username)
    \/ \E username \in UserNames : RemoveFromExclusionList(username)
    \/ GetExclusionList
    \/ \E username \in UserNames : PushToReturned(username)
    \/ \E p \in Procs, r \in ExclusionRequests : SearchRepositories(p, r)
    \/ \E p \in Procs : BasicFails(p)

SpecExclusion == Init /\ [][NextExclusion]_vars

-----------------------------------------------------------------------------
(* AICodeAnalyzer with a failing model.  A call runs from start to end     *)
(* here, one call at a time; `completion` is what the chat completion      *)
(* call gives: "throws" when it rejects, else the kind of its content.     *)

\* ai-code-analyzer.ts lines 182-188
DefaultAnalysis ==
    [overallQuality |-> 75, issues |-> <<>>,
     suggestions |-> <<"Unable to perform detailed analysis">>,
     securityScore |-> 70, maintainabilityScore |-> 75]

\* lines 171-189: "json" is a full JSON object, "partial" a JSON object
\* without most fields; "badjson" has braces that JSON.parse rejects, "text"
\* has none, "empty" is no content at all
parseAIAnalysis(content) ==
    CASE content = "json" ->
             [overallQuality |-> 90, issues |-> <<"bug">>,
              suggestions |-> <<"add tests">>, securityScore |-> 80,
              maintainabilityScore |-> 85]
      [] content = "partial" -> [overallQuality |-> 0]
      [] OTHER -> DefaultAnalysis

\* lines 201-210
enhanceWithStaticAnalysis(analysis) ==
    LET Number(field, default) ==
            IF field \in DOMAIN analysis /\ analysis[field] # 0
            THEN analysis[field] ELSE default
        List(field) ==
            IF field \in DOMAIN analysis THEN analysis[field] ELSE <<>>
    IN  [overallQuality |-> Number("overallQuality", 75),
         issues |-> List("issues"),
         suggestions |-> List("suggestions"),
         securityScore |-> Number("securityScore", 70),
         maintainabilityScore |-> Number("maintainabilityScore", 75),
         dependencies |-> <<>>]

\* lines 212-228
getFallbackAnalysis(repo) ==
    [overallQuality |-> IF "qualityScore" \in DOMAIN repo
                           /\ repo.qualityScore # 0
                        THEN repo.qualityScore ELSE 60,
     issues |-> <<"Analysis temporarily unavailable">>,
     suggestions |-> <<"Repository analysis will be available shortly">>,
     securityScore |-> 70, maintainabilityScore |-> 65,
     dependencies |-> <<>>]

\* line 45
AnalysisCacheKey(repo) == <<repo.full_name, repo.updated_at>>

\* AICodeAnalyzer.analyzeRepository (lines 44-87) on cache c: the value it
\* returns and the cache it leaves
AnalyzeWithAI(c, repo, completion) ==
    IF AnalysisCacheKey(repo) \in DOMAIN c
    THEN [value |-> c[AnalysisCacheKey(repo)], cache |-> c]
    ELSE IF completion = "throws"
    THEN [value |-> getFallbackAnalysis(repo), cache |-> c]
    ELSE LET enhancedAnalysis ==
                 enhanceWithStaticAnalysis(parseAIAnalysis(completion))
         IN  [value |-> enhancedAnalysis,
              cache |-> (AnalysisCacheKey(repo) :> enhancedAnalysis) @@ c]

\* repos.map(repo => this.analyzeRepository(repo)) (lines 95-97, 120-122);
\* the calls for one cache key are given the same completion
RECURSIVE AnalyzeAll(_, _, _)
AnalyzeAll(c, repos, completions) ==
    IF repos = <<>> THEN [values |-> <<>>, cache |-> c]
    ELSE LET first == AnalyzeWithAI(c, Head(repos), Head(completions))
             rest == AnalyzeAll(first.cache, Tail(repos), Tail(completions))
         IN  [values |-> <<first.value>> \o rest.values, cache |-> rest.cache]

\* lines 254-260: the numbered lines of the content
parseSuggestions(content) ==
    IF content = "numbered" THEN <<"Prioritize A", "Resolve B">> ELSE <<>>

AnalyzerCall(name, a, value, threw) ==
    /\ fn' = name
    /\ arg' = a
    /\ out' = [value |-> value, threw |-> threw]
    /\ UNCHANGED <<mainVars, compatVars, combineVars, built, listVars>>

\* AICodeAnalyzer.analyzeRepository is called
AnalyzeRepositoryWithAI(repo, completion) ==
    LET r == AnalyzeWithAI(analysisCache, repo, completion)
    IN  /\ AnalyzerCall("analyzeRepository",
                        [repos |-> <<repo>>, completions |-> <<completion>>,
                         hit |-> AnalysisCacheKey(repo) \in DOMAIN analysisCache],
                        r.value, FALSE)
        /\ analysisCache' = r.cache

\* AICodeAnalyzer.getCompatibilityScore is called (lines 92-114)
ScoreWithAI(repos, completions) ==
    LET r == AnalyzeAll(analysisCache, repos, completions)
        score == Round(calculateFrameworkCompatibility * 400
                       + analyzeDependencyConflicts * 400
                       + analyzeArchitecturalPatterns * 200)
    IN  /\ AnalyzerCall("getCompatibilityScore",
                        [repos |-> repos, completions |-> completions],
                        IF Len(repos) < 2 THEN 100 ELSE score, FALSE)
        /\ analysisCache' = IF Len(repos) < 2 THEN analysisCache ELSE r.cache

\* AICodeAnalyzer.generateMergeSuggestions is called (lines 119-150); last
\* is what its own chat completion call gives
GenerateMergeSuggestions(repos, completions, last) ==
    LET r == AnalyzeAll(analysisCache, repos, completions)
    IN  /\ AnalyzerCall("generateMergeSuggestions",
                        [repos |-> repos, completions |-> completions,
                         last |-> last],
                        IF last = "throws" THEN <<>>
                        ELSE parseSuggestions(last),
                        last = "throws")
        /\ analysisCache' = r.cache

AnalyzedRepos ==
    { [full_name |-> "a/x", updated_at |-> 0],
      [full_name |-> "b/y", updated_at |-> 0, qualityScore |-> 0],
      [full_name |-> "c/z", updated_at |-> 0, qualityScore |-> 90] }

Completions == {"throws", "empty", "text", "badjson", "partial", "json"}

\* lists of different repositories with one completion each
AnalyzedLists ==
    { [repos |-> <<>>, completions |-> <<>>] }
    \cup { [repos |-> <<a>>, completions |-> <<k>>] :
             a \in AnalyzedRepos, k \in Completions }
    \cup { [repos |-> <<a, b>>, completions |-> <<k, k>>] :
             a \in AnalyzedRepos, b \in AnalyzedRepos,
             k \in {"throws", "text"} }

NextAnalyzer ==
    \/ \E repo \in AnalyzedRepos, k \in Completions :
          AnalyzeRepositoryWithAI(repo, k)
    \/ \E l \in AnalyzedLists : ScoreWithAI(l.repos, l.completions)
    \/ \E l \in AnalyzedLists, last \in {"throws", "text", "numbered"} :
          GenerateMergeSuggestions(l.repos, l.completions, last)

SpecAnalyzer == Init /\ [][NextAnalyzer]_vars

-----------------------------------------------------------------------------
(* Repository records that carry a qualityScore of their own.  Each        *)
(* operation is applied to two records that differ in that field only;     *)
(* carried is <<>> for a record without the field, else <<its value>>.     *)

Carry(repo, carried) ==
    IF carried = <<>> THEN repo
    ELSE Spread(repo, [qualityScore |-> carried[1]])

CarryEach(items, carried) ==
    [i \in 1..Len(items) |->
        [items[i] EXCEPT !.repo = Carry(items[i].repo, carried)]]

OnBoth(name, a, b, outs) ==
    /\ fn' = name
    /\ arg' = <<a, b>>
    /\ out' = outs
    /\ UNCHANGED <<mainVars, compatVars, combineVars, built, listVars,
                   analysisCache>>

\* GitHubSearchEngine.enrichRepositories (part_001 lines 150-176), on a
\* response page of the kinds of `pattern`
EnrichBoth(pattern, qa, qb) ==
    LET a == CarryEach(Page(per_page_basic, pattern), qa)
        b == CarryEach(Page(per_page_basic, pattern), qb)
    IN  /\ qa # qb
        /\ OnBoth("enrichRepositories", a, b,
                  <<enrichRepositories(a, now), enrichRepositories(b, now)>>)

\* EnhancedGitHubAPI.enhancedEnrichment (lines 302-344)
EnhancedEnrichBoth(pattern, qa, qb) ==
    LET a == CarryEach(Page(per_page_enhanced, pattern), qa)
        b == CarryEach(Page(per_page_enhanced, pattern), qb)
    IN  /\ qa # qb
        /\ OnBoth("enhancedEnrichment", a, b,
                  <<enhancedEnrichment(a, "ok", now),
                    enhancedEnrichment(b, "ok", now)>>)

\* ProjectCombinator.analyzeRepository (part_000 lines 100-113)
AnalyzeBoth(repo, qa, qb) ==
    /\ qa # qb
    /\ OnBoth("analyzeRepository", Carry(repo, qa), Carry(repo, qb),
              <<analyzeRepository(Carry(repo, qa)),
                analyzeRepository(Carry(repo, qb))>>)

\* AICodeAnalyzer.getFallbackAnalysis (ai-code-analyzer.ts lines 212-228)
FallbackBoth(repo, qa, qb) ==
    /\ qa # qb
    /\ OnBoth("getFallbackAnalysis", Carry(repo, qa), Carry(repo, qb),
              <<getFallbackAnalysis(Carry(repo, qa)),
                getFallbackAnalysis(Carry(repo, qb))>>)

CarriedScores == {<<>>, <<0>>, <<50>>, <<90>>}

NextCarried ==
    \E qa \in CarriedScores, qb \in CarriedScores :
       \/ \E pattern \in {<<"star">>, <<"mid">>, <<"star", "mid">>} :
             \/ EnrichBoth(pattern, qa, qb)
             \/ EnhancedEnrichBoth(pattern, qa, qb)
       \/ \E repo \in {RepoNext, RepoShop, RepoTool} : AnalyzeBoth(repo, qa, qb)
       \/ \E repo \in {[full_name |-> "a/x", updated_at |-> 0],
                       [full_name |-> "b/y", updated_at |-> 5]} :
             FallbackBoth(repo, qa, qb)

SpecCarried == Init /\ [][NextCarried]_vars

-----------------------------------------------------------------------------
(* detectFramework on repositories whose text names several frameworks     *)

Words == {"tool", "React", "preact", "Next.js", "nextjs-remix", "remix",
          "vue", "Angular", "expression", "fastapi", "django"}

DescribedRepos ==
    [name : Words,
     description : {<<>>} \cup {<<w>> : w \in Words},
     topics : {<<>>} \cup {<<w>> : w \in Words}
              \cup {<<v, w>> : v \in {"vue", "django", "React"}, w \in Words}]

\* one application of ProjectCombinator.detectFramework
DetectFramework(repo) ==
    /\ fn = "none"
    /\ fn' = "detectFramework"
    /\ arg' = repo
    /\ out' = detectFramework(repo)
    /\ UNCHANGED <<mainVars, compatVars, combineVars, built, listVars,
                   analysisCache>>

NextDetect == \E repo \in DescribedRepos : DetectFramework(repo)

SpecDetect == Init /\ [][NextDetect]_vars

-----------------------------------------------------------------------------
(* The claims *)

(* C1: the lastRequestTime values recorded by any two completed
   waitIfNeeded calls, concurrent ones included, differ by at least
   minInterval.  The clock never goes back, so the values are recorded in
   increasing order and it is enough to compare each with the one before. *)
C1_MinSpacing ==
    prevStamp > 0 => lastRequestTime - prevStamp >= minInterval

(* C2: while resetTime is in the future, the number of calls that passed the
   low-water check without suspending for quota and went on to decrement
   remaining never exceeds what was available above the low-water mark. *)
C2_NoOverAdmission ==
    passedSince <= Max(quotaAtUpdate - LowWater, 0)

(* C3: an enhancedSearch call that finds a cache entry younger than the TTL
   returns the cached result at once: no waitIfNeeded, no external call, and
   the rate limiter and the cache stay as they are. *)
C3_CacheHitFrame ==
    [][\A p \in Procs :
         ( /\ seq'[p] # seq[p]
           /\ \/ op'[p] = "search"
              \/ op'[p] = "trending" /\ ~Fresh(TrendingCacheKey, now)
           /\ Fresh(SearchCacheKey(req'[p]), now) )
         => /\ result'[p] = cache[SearchCacheKey(req'[p])].data
            /\ pc'[p] = (IF op'[p] = "search" THEN "done" ELSE "trendCont")
            /\ extBy'[p] = 0
            /\ UNCHANGED <<lastRequestTime, requestCount, resetTime,
                           remaining, prevStamp, cache, extLog>>]_vars

C3_Witness ==
    \E p \in Procs :
        /\ op[p] = "search"
        /\ pc[p] = "done"
        /\ Len(lookups[p]) = 1
        /\ lookups[p][1].served
        /\ result[p] = cache[SearchCacheKey(req[p])].data
        /\ extBy[p] = 0

(* C4: a cache entry is served iff now - insertedAt < cacheTimeout, in the
   search lookup and in the trending lookup alike; an entry exactly as old
   as the TTL is not served. *)
C4_ServedIffYounger ==
    \A p \in Procs : \A i \in 1..Len(lookups[p]) :
        lookups[p][i].served <=>
            (lookups[p][i].present /\ lookups[p][i].age < cacheTimeout)

C4_Witness ==
    /\ Len(lookups[1]) = 2
    /\ lookups[1][1].key = TrendingCacheKey
    /\ lookups[1][2].key = SearchCacheKey(TrendingRequest)
    /\ \A i \in 1..2 :
          /\ lookups[1][i].present
          /\ lookups[1][i].age = cacheTimeout
          /\ ~lookups[1][i].served

(* C5: for any cache key, at most one external search call is issued within
   one TTL window, concurrent requests for the same key included. *)
C5_OneCallPerWindow ==
    \A key \in DOMAIN extLog :
        \A i, j \in 1..Len(extLog[key]) :
            i < j => extLog[key][j] - extLog[key][i] >= cacheTimeout

(* C6: when the external search call fails, the caller gets exactly one
   error and no result, the request has issued exactly one search call, and
   the cache is left as it was. *)
C6_FailureSurfacesOnce ==
    [][\A p \in Procs :
         (pc[p] = "searching" /\ pc'[p] = "failed")
         => /\ errors'[p] = 1
            /\ result'[p] = NoResult
            /\ extBy'[p] = 1
            /\ cache' = cache]_vars

C6_Witness ==
    \E p \in Procs :
        /\ op[p] = "search"
        /\ pc[p] = "failed"
        /\ errors[p] = 1
        /\ SearchCacheKey(req[p]) \notin DOMAIN cache

(* C7: for every successful search, hasMore is true iff the number of items
   the external API returned equals the requested page size (50 in
   enhancedSearch, 30 in searchRepositories), and nextPage is page + 1 when
   hasMore is true and absent otherwise. *)
C7_HasMoreIffFullPage ==
    \A p \in Procs :
        (pc[p] = "done" /\ op[p] \in {"search", "basic"} /\ extBy[p] = 1)
        => LET size == IF op[p] = "search" THEN per_page_enhanced
                       ELSE per_page_basic
           IN  /\ result[p].hasMore <=> (Length(resp[p].items) = size)
               /\ result[p].nextPage =
                     (IF result[p].hasMore THEN req[p].page + 1 ELSE NoPage)

(* C8: a search cancelled while suspended inside waitIfNeeded issues no
   external call and does not decrement remaining. *)
C8_CancelConsumesNothing ==
    \A p \in Procs :
        cancelled[p] => (extBy[p] = 0 /\ decBy[p] = 0)

(* C9: applyAdvancedFilters removes a repository only when codeQuality is
   set and its qualityScore is below that bucket's threshold (excellent 85,
   good 70, fair 55, poor 0); a filter that the query string expresses,
   such as minStars = 100, removes nothing: a scored 50-star repository of
   the response is in the result. *)
Threshold(bucket) ==
    IF bucket = "excellent" THEN 85
    ELSE IF bucket = "good" THEN 70
    ELSE IF bucket = "fair" THEN 55
    ELSE 0

Elements(l) == {l[i] : i \in 1..Len(l)}

C9_OnlyQualityFilters ==
    \A p \in Procs :
        (pc[p] = "done" /\ op[p] = "search" /\ extBy[p] = 1)
        => \A run \in Elements(resp[p].enriched) :
              /\ run.repo.qualityScore \in 0..100
              /\ run \in Elements(result[p].repositories)
                 <=> ( \/ ~Has(req[p].filters, "codeQuality")
                       \/ run.repo.qualityScore >=
                            Threshold(Filter(req[p].filters, "codeQuality")) )

C9_Witness ==
    \E p \in Procs :
        /\ pc[p] = "done" /\ op[p] = "search" /\ extBy[p] = 1
        /\ Has(req[p].filters, "minStars")
        /\ Filter(req[p].filters, "minStars") = 100
        /\ \E run \in Elements(result[p].repositories) :
              run.repo.stargazers_count = 50

(* C10: compatibility analysis of an empty list or of a single repository
   returns at once, with score 100 and, from analyzeProjectCompatibility, no
   conflicts and the suggestion to add more repositories; no analysis is
   started on the list and the call ends by returning a value. *)
C10_ShortListIsNeutral ==
    (compatOp # "none" /\ Len(compatRepos) < 2)
    => /\ compatPc = "done"
       /\ analysesRun = 0
       /\ pending = {}
       /\ compatOp = "project" =>
             compatOut = [compatibilityScore |-> 100,
                          conflicts |-> <<>>,
                          suggestions |-> <<AddMore>>]
       /\ compatOp = "score" => compatOut = 100

C10_Witness ==
    /\ compatOp = "project"
    /\ Len(compatRepos) = 1
    /\ compatPc = "done"
    /\ compatOut.compatibilityScore = 100
    /\ analyzerCache # {}

(* C11: compatibility analysis of two or more identical repositories (the
   same record repeated) returns a compatibility score of exactly 100. *)
C11_IdenticalIs100 ==
    ( /\ compatPc = "done"
      /\ Len(compatRepos) >= 2
      /\ \A i \in 1..Len(compatRepos) : compatRepos[i] = compatRepos[1] )
    => IF compatOp = "project"
       THEN compatOut.compatibilityScore = 100
       ELSE compatOut = 100

(* C12: the merge strategy's targetFramework is the caller's target
   framework when one is given; otherwise it is the detected framework with
   the highest count among the inputs and, among those of the highest count,
   the one that occurs first in input order. *)
FirstIndex(l, x) == CHOOSE i \in 1..Len(l) :
                        l[i] = x /\ \A j \in 1..(i - 1) : l[j] # x

C12_TargetFramework ==
    fn = "determineMergeStrategy"
    => IF arg.targetFramework # Undefined
       THEN out.targetFramework = arg.targetFramework
       ELSE arg.frameworks # <<>>
            => LET l == arg.frameworks
                   f == out.targetFramework
                   Occ(x) == Cardinality({i \in 1..Len(l) : l[i] = x})
               IN  /\ \E i \in 1..Len(l) : l[i] = f
                   /\ \A i \in 1..Len(l) :
                         /\ Occ(l[i]) <= Occ(f)
                         /\ Occ(l[i]) = Occ(f)
                               => FirstIndex(l, f) <= FirstIndex(l, l[i])

C12_Witness ==
    /\ fn = "determineMergeStrategy"
    /\ arg.targetFramework = Undefined
    /\ arg.frameworks = <<"remix", "nextjs", "nextjs", "remix">>
    /\ out.targetFramework = "remix"

(* C13: combineProjects on two repositories both detected as nextjs, with
   no target framework given, has a merge strategy with targetFramework
   nextjs and a dependency list holding next, react and react-dom, each
   exactly once. *)
Occurrences(l, x) == Cardinality({i \in 1..Len(l) : l[i] = x})

C13_TwoNextjs ==
    \A k \in 1..Len(combLog) :
        LET e == combLog[k]
            repos == e.request.repositories
        IN  ( /\ Len(repos) = 2
              /\ \A i \in 1..2 : detectFramework(repos[i]) = "nextjs"
              /\ e.request.targetFramework = Undefined )
            => /\ e.mergeStrategy.targetFramework = "nextjs"
               /\ \A d \in {"next", "react", "react-dom"} :
                     Occurrences(e.result.dependencies, d) = 1

C13_Witness ==
    \E k \in 1..Len(combLog) :
        /\ combLog[k].request.repositories = <<RepoNext, RepoShop>>
        /\ combLog[k].request.targetFramework = Undefined
        /\ combLog[k].mergeStrategy.targetFramework = "nextjs"
        /\ combLog[k].result.dependencies =
              <<"next", "react", "react-dom", "typescript", "stripe">>

(* C14: the scripts and the deployment output directory of a combination
   are those of its chosen target framework (the caller's, or the dominant
   detected one when none is given): next dev / next build / next start and
   .next for nextjs, the remix commands for remix, the generic npm scripts
   otherwise, and build as the output directory of every framework but
   nextjs. *)
C14_ScriptsOfChosenFramework ==
    \A k \in 1..Len(combLog) :
        LET f == combLog[k].mergeStrategy.targetFramework
            scripts == combLog[k].result.scripts
        IN  /\ <<scripts.dev, scripts.build, scripts.start>> =
                  (IF f = "nextjs"
                   THEN <<"next dev", "next build", "next start">>
                   ELSE IF f = "remix"
                   THEN <<"remix dev", "remix build", "remix-serve build">>
                   ELSE <<"npm run dev", "npm run build", "npm start">>)
            /\ combLog[k].result.deploymentConfig.outputDirectory =
                  (IF f = "nextjs" THEN ".next" ELSE "build")

(* C15: two combineProjects calls with identical requests return identical
   dependency lists (same elements, same order) and identical scripts,
   whatever calls happened in between; the results differ at most in the
   timestamp of the combination id. *)
C15_SameRequestSameResult ==
    \A j, k \in 1..Len(combLog) :
        combLog[j].request = combLog[k].request
        => /\ combLog[j].result.dependencies = combLog[k].result.dependencies
           /\ combLog[j].result.scripts = combLog[k].result.scripts
           /\ [combLog[j].result EXCEPT !.id[2] = 0] =
                 [combLog[k].result EXCEPT !.id[2] = 0]

C15_Witness ==
    /\ Len(combLog) = 3
    /\ combLog[1].request = combLog[3].request
    /\ combLog[2].request # combLog[1].request
    /\ combLog[2].result.dependencies # combLog[1].result.dependencies
    /\ combLog[1].result.id[2] < combLog[3].result.id[2]

(* C16: after any sequence of combineProjects calls every result returned
   by a completed call is retrievable: getCombination(result.id) returns
   that result, and getAllCombinations has one entry per completed call. *)
C16_EveryResultRetrievable ==
    /\ \A k \in 1..Len(combLog) :
          getCombination(combLog[k].result.id) = combLog[k].result
    /\ getAllCombinationsLength = Len(combLog)

(* C17: for every repository with non-negative star, fork and open-issue
   counts and any update time, one in the future included, the standard and
   the enhanced quality score are integers between 0 and 100. *)
C17_ScoreInRange ==
    fn \in {"calculateQualityScore", "calculateEnhancedQualityScore"}
    => out \in 0..100

C17_Witness ==
    /\ fn = "calculateQualityScore"
    /\ arg.repo.updated_at > 0
    /\ arg.repo.open_issues_count = 1000
    /\ arg.repo.stargazers_count = 0
    /\ out = 100

(* C18: with the standard formula, repository A (10000 stars, 2000 forks,
   updated today, a description of 200 characters, 5 topics) scores at
   least 40 points more than repository B (5 stars, no forks, updated two
   years ago, no description, no topics). *)
C18_PopularBeatsNeglectedBy40 ==
    fn = "compareQualityScores" => out[1] - out[2] >= 40

(* C19, as claimed: all repositories with no stars, forks, open issues and
   topics and a description of at most 50 characters have one and the same
   standard quality score, whatever their last-update time. *)
C19_ConstantLowScore ==
    (fn = "compareQualityScores" /\ arg.a \in BareRepos /\ arg.b \in BareRepos)
    => out[1] = out[2]

(* C19, amended: two such repositories with the same last-update time have
   the same standard quality score whatever their remaining metadata; the
   score is 1 when the last update is 600 days old or older and between 1
   and 5 when it is not in the future; no sub-score is negative. *)
C19_LowScoreByRecency ==
    (fn = "compareQualityScores" /\ arg.a \in BareRepos /\ arg.b \in BareRepos)
    => /\ arg.a.updated_at = arg.b.updated_at => out[1] = out[2]
       /\ \A i \in 1..2 :
             LET r == IF i = 1 THEN arg.a ELSE arg.b
             IN  /\ r.updated_at <= 0 => out[i] \in 1..5
                 /\ r.updated_at <= 0 - 600 => out[i] = 1
                 /\ \A f \in DOMAIN arg.sub[i] : arg.sub[i][f] >= 0

C19_Witness ==
    /\ fn = "compareQualityScores"
    /\ arg.a \in BareRepos /\ arg.b \in BareRepos
    /\ arg.a.updated_at = 0 /\ arg.b.updated_at = 0
    /\ arg.a.descLen = 0 /\ arg.b.descLen = 50
    /\ out = <<5, 5>>

(* C20, as claimed: two builds of a query builder with the same query, the
   same filters and the same exclusion list return the same string, whenever
   each of them runs and whatever the filters set. *)
C20_BuildIsPure ==
    (fn \in Builders /\ built.fn = fn
                   /\ built.arg.query = arg.query
                   /\ built.arg.filters = arg.filters
                   /\ (fn = "buildSmartQuery"
                       => built.arg.exclusionList = arg.exclusionList))
    => built.out = out

(* C20, amended: two builds with the same query, the same filters and the
   same exclusion list return the same string when the filters set no
   activity bucket or both builds run on the same UTC day. *)
C20_BuildIsPureWithinDay ==
    (fn \in Builders /\ built.fn = fn
                   /\ built.arg.query = arg.query
                   /\ built.arg.filters = arg.filters
                   /\ (fn = "buildSmartQuery"
                       => built.arg.exclusionList = arg.exclusionList)
                   /\ \/ ~Has(arg.filters, "activity")
                      \/ built.arg.clock \div MsPerDay = arg.clock \div MsPerDay)
    => built.out = out

C20_Witness ==
    /\ fn = "buildEnhancedQuery" /\ built.fn = fn
    /\ built.arg.query = arg.query /\ built.arg.filters = arg.filters
    /\ Has(arg.filters, "activity")
    /\ built.arg.clock < arg.clock
    /\ built.arg.clock \div MsPerDay = arg.clock \div MsPerDay
    /\ built.out = out

\* the cache key k is that of a search logically equal to request r: the
\* same query and page, the same filter fields with the same values
SameSearch(k, r) ==
    /\ Len(k) = 4 /\ k[1] = "search"
    /\ k[2] = r.query /\ k[4] = r.page
    /\ Elements(k[3]) = Elements(JSONstringify(r.filters))

(* C21: an enhancedSearch call whose query, page and filters (the same
   fields with the same values, in whatever order they were set) are those
   of a search cached less than the TTL ago is served from the cache. *)
C21_SameFiltersSameKey ==
    [][\A p \in Procs :
         ( /\ seq'[p] # seq[p]
           /\ op'[p] = "search"
           /\ \E k \in DOMAIN cache : Fresh(k, now) /\ SameSearch(k, req'[p]) )
         => /\ lookups'[p][1].served
            /\ pc'[p] = "done"]_vars

\* the pieces of term occur in the query string q, one after another
Contains(q, term) ==
    \E i \in 1..(Len(q) - Len(term) + 1) :
        SubSeq(q, i, i + Len(term) - 1) = term

\* the terms that stand for the filters language, minStars, maxStars, topics,
\* archived, fork and size
FilterTerms(filters) ==
    (IF Has(filters, "language")
     THEN {<<"language:", Filter(filters, "language")>>} ELSE {})
    \cup (IF Has(filters, "minStars")
          THEN {<<"stars:>=", ToString(Filter(filters, "minStars"))>>}
          ELSE {})
    \cup (IF Has(filters, "maxStars")
          THEN {<<"stars:<=", ToString(Filter(filters, "maxStars"))>>}
          ELSE {})
    \cup (IF Has(filters, "topics")
          THEN {<<"topic:", t>> : t \in Elements(Filter(filters, "topics"))}
          ELSE {})
    \cup (IF Has(filters, "archived")
          THEN {IF Filter(filters, "archived") = "true"
                THEN <<"archived:true">> ELSE <<"archived:false">>}
          ELSE {})
    \cup (IF Has(filters, "fork")
          THEN {IF Filter(filters, "fork") = "true"
                THEN <<"fork:true">> ELSE <<"fork:false">>}
          ELSE {})
    \cup (IF Has(filters, "size")
          THEN {sizeRanges[Filter(filters, "size")]} ELSE {})

(* C22: the query string that an enhancedSearch call sends to the external
   search API contains the term of each of the filters language, minStars,
   maxStars, topics, archived and fork that is set, besides the size and
   activity terms. *)
C22_QueryCarriesFilters ==
    \A p \in Procs :
        (pc[p] = "searching" /\ op[p] = "search")
        => /\ \A term \in FilterTerms(req[p].filters) :
                 Contains(searchQuery[p], term)
           /\ Has(req[p].filters, "activity")
                 => Contains(searchQuery[p], <<"pushed:>">>)

(* C23: every exclusion-list operation leaves the list without duplicates;
   addToExclusionList adds its name to the names of the list,
   removeFromExclusionList takes its name out of them, and nothing else
   changes the list, a push onto the array that getExclusionList returned
   included; the query that searchRepositories builds has exactly one
   -user:<name> term per entry of the list, in list order, directly after
   the free-text query. *)
C23_ExclusionListTracksCalls ==
    [][LET before == arrays[exclusionList]
           after == arrays'[exclusionList']
           listOp == nListOps' # nListOps
       IN  /\ \A i, j \in 1..Len(after) : after[i] = after[j] => i = j
           /\ (listOp /\ fn' = "addToExclusionList")
                 => Elements(after) = Elements(before) \cup {arg'}
           /\ (listOp /\ fn' = "removeFromExclusionList")
                 => Elements(after) = Elements(before) \ {arg'}
           /\ ~(listOp /\ fn' \in {"addToExclusionList",
                                   "removeFromExclusionList"})
                 => after = before
           /\ \A p \in Procs :
                 (seq'[p] # seq[p] /\ op'[p] = "basic")
                 => LET q == searchQuery'[p]
                        off == IF req'[p].query = "" THEN 0 ELSE 2
                    IN  /\ req'[p].query # "" => q[1] = req'[p].query
                        /\ \A i \in 1..Len(after) :
                              /\ q[off + 3 * i - 2] = "-user:"
                              /\ q[off + 3 * i - 1] = after[i]
                        /\ Cardinality({i \in 1..Len(q) : q[i] = "-user:"})
                              = Len(after)]_vars

C23_Witness ==
    /\ arrays[exclusionList] = <<"spam">>
    /\ fn = "push" /\ arg = "Gzeu"
    /\ arrays[out] = <<"spam", "Gzeu">>
    /\ op[1] = "basic" /\ pc[1] = "searching"
    /\ searchQuery[1] = <<"react", " ", "-user:", "spam", " ",
                          "stars:>=", "100">>

\* the enrichment of the response that request p received: one scored
\* repository per item, in response order, a failed lookup counting as no
\* language or no contributor
EnrichedInOrder(p) ==
    /\ pc[p] = "done" /\ errors[p] = 0
    /\ Len(resp[p].enriched) = Len(resp[p].items)
    /\ \A i \in 1..Len(resp[p].items) :
          LET e == resp[p].enriched[i]
              failed == Fails(resp[p].scn, i)
          IN  /\ e.count = resp[p].items[i].count
              /\ e.repo.kind = resp[p].items[i].repo.kind
              /\ e.repo.qualityScore \in 0..100
              /\ failed.languages => e.repo.nLanguages = 0
              /\ failed.contributors => e.repo.contributorCount = 0

(* C24, as claimed: whichever language and contributor lookups fail, an
   enhancedSearch call that received a response succeeds and returns one
   scored repository per item of the response, in response order. *)
C24_OnePerItemReturned ==
    \A p \in Procs :
        (op[p] = "search" /\ resp[p] # NoResponse)
        => /\ EnrichedInOrder(p)
           /\ result[p].repositories = resp[p].enriched

(* C24, amended: whichever language and contributor lookups fail, an
   enhancedSearch call that received a response succeeds; its enrichment
   gives one scored repository per item of the response, in response order,
   and it returns those of them whose score reaches the codeQuality
   threshold of the request, all of them when codeQuality is not set. *)
C24_LookupFailuresDegrade ==
    \A p \in Procs :
        (op[p] = "search" /\ resp[p] # NoResponse)
        => /\ EnrichedInOrder(p)
           /\ LET Passes(run) ==
                      Has(req[p].filters, "codeQuality")
                      => run.repo.qualityScore
                            >= Threshold(Filter(req[p].filters, "codeQuality"))
              IN  result[p].repositories = SelectSeq(resp[p].enriched, Passes)

C24_Witness ==
    /\ op[1] = "search" /\ pc[1] = "done"
    /\ resp[1].scn = "mixed"
    /\ ~Has(req[1].filters, "codeQuality")
    /\ Len(result[1].repositories) = 2
    /\ result[1].repositories[1].repo.nLanguages = 0
    /\ result[1].repositories[1].repo.contributorCount = 10
    /\ result[1].repositories[2].repo.nLanguages = 5
    /\ result[1].repositories[2].repo.contributorCount = 0

(* C25: when a chat completion call of analyzeRepository,
   getCompatibilityScore or generateMergeSuggestions fails or gives content
   that is not parsable, the operation returns a value and throws nothing
   to its caller; the value analyzeRepository returns on a cache miss is
   then one of the two fallback records (whatever its overallQuality). *)
C25_FailureNeverSurfaces ==
    LET Unusable == {"throws", "empty", "text", "badjson"}
        failed == \/ \E i \in 1..Len(arg.completions) :
                        arg.completions[i] \in Unusable
                  \/ fn = "generateMergeSuggestions" /\ arg.last \in Unusable
        Rest(analysis) == [analysis EXCEPT !.overallQuality = 0]
    IN  (fn \in {"analyzeRepository", "getCompatibilityScore",
                 "generateMergeSuggestions"} /\ failed)
        => /\ ~out.threw
           /\ (fn = "analyzeRepository" /\ ~arg.hit)
                 => Rest(out.value) \in
                       {Rest(getFallbackAnalysis(arg.repos[1])),
                        Rest(enhanceWithStaticAnalysis(DefaultAnalysis))}

(* C26: two repository records that differ only in the qualityScore they
   carry give the same output from search enrichment, from the analysis
   combineProjects runs on each repository (the echo of the record itself
   apart) and from the analyzer's fallback record. *)
C26_QualityScoreNotTrusted ==
    LET Derived(o) == IF fn = "analyzeRepository"
                      THEN [o EXCEPT !.repository = <<>>] ELSE o
    IN  fn \in {"enrichRepositories", "enhancedEnrichment",
                "analyzeRepository", "getFallbackAnalysis"}
        => Derived(out[1]) = Derived(out[2])

(* C27: when enhancedSearch receives the response of its external search
   call, the rate limiter is reconciled with the quota the response reports:
   remaining is the reported remaining and resetTime the reported reset
   (epoch seconds) times 1000. *)
C27_ResponseReconcilesQuota ==
    [][\A p \in Procs :
          (pc[p] = "searching" /\ pc'[p] \in {"done", "trendCont"})
          => LET reported == RateLimitHeaders(resp'[p].scn)
             IN  /\ remaining' = reported.remaining
                 /\ resetTime' = reported.reset * 1000]_vars

(* C28: with waitIfNeeded calls made one after another, the step that
   completes a call is taken no earlier than minInterval after the
   lastRequestTime the call before recorded, sets lastRequestTime to the
   time of the step, and leaves remaining one below what it was (one below
   the full quota when the call found the reset time passed); so it is after
   a suspension for quota too. *)
C28_SequentialSpacing ==
    [][LET suspended == pc[1] \in {"quotaWait", "intervalWait"}
           completes == /\ pc'[1] \notin {"quotaWait", "intervalWait"}
                        /\ suspended \/ seq'[1] # seq[1]
           before == IF ~suspended /\ now > resetTime THEN MaxQuota
                     ELSE remaining
       IN  completes
           => /\ now >= lastRequestTime + minInterval
              /\ lastRequestTime' = now
              /\ remaining' = before - 1]_vars

\* a second call has completed after suspending for quota: the quota was
\* spent and the reset time lay between the two completions
C28_Witness ==
    /\ pc[1] = "done"
    /\ prevStamp > 0
    /\ prevStamp < resetTime
    /\ resetTime <= lastRequestTime
    /\ resetTime - prevStamp < minInterval
    /\ remaining < 0

(* C29: remaining is never negative, whatever waitIfNeeded calls and
   updateLimits calls (with arguments that are not negative) were made. *)
C29_RemainingNotNegative ==
    remaining >= 0

(* C30: detectFramework returns the first framework, in the order nextjs,
   remix, react, vue, angular, express, fastapi, django, one of whose
   keywords occurs in the lower-cased text made of name, description and
   topics, and unknown when none does; so a text with keywords of several
   frameworks gives the first of them in that order. *)
C30_FirstFrameworkWins ==
    LET priority == <<"nextjs", "remix", "react", "vue", "angular", "express",
                      "fastapi", "django">>
        keywords(fw) == IF fw = "nextjs" THEN {"nextjs", "next.js"} ELSE {fw}
        occurs(i) == \E k \in keywords(priority[i]) : TextIncludes(arg, k)
    IN  fn = "detectFramework"
        => IF \E i \in 1..Len(priority) : occurs(i)
           THEN \E i \in 1..Len(priority) :
                   /\ occurs(i)
                   /\ \A j \in 1..(i - 1) : ~occurs(j)
                   /\ out = priority[i]
           ELSE out = "unknown"

\* a repository named React with the topics vue and remix is a remix one
C30_Witness ==
    /\ fn = "detectFramework"
    /\ arg.name = "React"
    /\ arg.topics = <<"vue", "remix">>
    /\ out = "remix"

====
